---- MODULE Spec2Model ----
(***************************************************************************)
(* Model of the fraud-scoring hot path of dygsom-fraud-api:                *)
(*   AuthMiddleware -> RateLimitMiddleware -> POST /api/v1/fraud/score     *)
(*   -> FraudService.score_transaction (velocity, score, decision, save).  *)
(* Several API instances share one database and one Redis.  Scores are     *)
(* integers in hundredths (100 = 1.0), time is in whole seconds.           *)
(***************************************************************************)
EXTENDS Integers, FiniteSets, Sequences, TLC

\* ---------------------------------------------------------------- bounds
MaxReq == 3
MaxRateLimit == 2
TickSlack == 1
MaxFaults == 1

\* ------------------------------------------------------ program constants
DEFAULT_WINDOW == 60
DEFAULT_RATE_LIMIT == 100
RATE_LIMIT_TTL_BUFFER == 10
CACHE_VELOCITY_TTL == 60
CACHE_DEFAULT_TTL == 60
VELOCITY_BUCKET_SECONDS == 60
FRAUD_SCORE_LOW_THRESHOLD == 30
FRAUD_SCORE_MEDIUM_THRESHOLD == 50
FRAUD_SCORE_HIGH_THRESHOLD == 80
HIGH_RISK_DECLINE_SCORE == 70
ScoreScale == 100
API_KEY_SALT == "change-in-production"

RISK_LEVEL_LOW == "LOW"
RISK_LEVEL_MEDIUM == "MEDIUM"
RISK_LEVEL_HIGH == "HIGH"
RISK_LEVEL_CRITICAL == "CRITICAL"
RECOMMENDATION_APPROVE == "APPROVE"
RECOMMENDATION_REVIEW == "REVIEW"
RECOMMENDATION_DECLINE == "DECLINE"

\* ------------------------------------------------------------ input sets
\* API instances behind the load balancer; in this model an instance handles
\* one request at a time, so a request slot is an instance
Instances == {1, 2}
Reqs == Instances
\* X-API-Key header values: absent, the customer's key, a deactivated key,
\* a key that was never issued
Headers == {"none", "kA", "kI", "kX"}
KeyIds == {"idA", "idI"}
\* The customer's key as the test fixtures create it: without expiry and
\* with a rate limit, or expiring with a very low rate limit
Fixtures == {"plain", "expiring"}
TxIds == {"tx-1", "tx-2"}
Emails == {"hot@example.com"}
MLScores == {0, 55, 100}
\* Request bodies: scenario 1 of the API examples, the same with a private
\* source IP, and the empty JSON object
RequiredFields == {"transaction_id", "amount", "customer", "payment_method"}
ValidBody == [name |-> "valid", fields |-> RequiredFields,
              ip_address |-> <<181, 67, 45, 123>>]
PrivateIpBody == [name |-> "private_ip", fields |-> RequiredFields,
                  ip_address |-> <<10, 0, 0, 1>>]
EmptyBody == [name |-> "empty", fields |-> {}, ip_address |-> <<>>]
Bodies == {ValidBody, PrivateIpBody, EmptyBody}
\* the expiring key expires at the end of the first seconds
ExpiresAt == TickSlack
NULL == -1
\* the first seconds, and the second at which the first window has passed
TimePoints == (0..TickSlack) \cup {DEFAULT_WINDOW}
Scores == 0..ScoreScale

VARIABLES
    now,            \* wall clock, seconds
    api_keys,       \* api_keys relation: key id -> record
    transactions,   \* transactions relation: set of rows
    prisma_client,  \* per instance: dependencies._prisma_client
    redis_client,   \* per instance: dependencies._redis_client
    rl_zset,        \* Redis sorted set per key id: set of members (= scores)
    rl_ttl,         \* Redis expiry time of the sorted set, NULL if none
    kv_cache,       \* Redis velocity entry per email: bucket, value, expiry
    req,            \* per request slot: position, inputs, locals, response
    arrived,        \* number of requests received so far
    faults,         \* dependency failures injected so far
    mon,            \* per key id: what its earlier requests were answered
    probe           \* decision-table harness: score, risk level, recommendation

vars == <<now, api_keys, transactions, prisma_client, redis_client,
          rl_zset, rl_ttl, kv_cache, req, arrived, faults, mon, probe>>

\* ------------------------------------------------------- pure functions

\* SecurityUtils.hash_api_key: SHA-256 of key || salt (collision-free here)
hash_api_key(api_key) == <<api_key, API_KEY_SALT>>

find_by_key_hash_only(rec, key_hash, t) == rec.key_hash = key_hash

\* The where-clause of ApiKeyRepository.find_by_key_hash
find_by_key_hash_where(rec, key_hash, t) ==
    /\ rec.key_hash = key_hash
    /\ rec.is_active = TRUE
    /\ (rec.expires_at = NULL \/ rec.expires_at > t)

\* prisma.apikey.find_first: the matching record's id, or "none"
find_first(keys, key_hash, t) ==
    LET hits == {k \in KeyIds : find_by_key_hash_where(keys[k], key_hash, t)}
    IN  IF hits = {} THEN "none" ELSE CHOOSE k \in hits : TRUE

\* The data model's rule: a key authenticates a request iff a record with
\* its hash has is_active and (expires_at is null or expires_at > now)
KeyAuthenticates(keys, key_hash, t) ==
    \E k \in KeyIds :
       /\ keys[k].key_hash = key_hash
       /\ keys[k].is_active
       /\ (keys[k].expires_at = NULL \/ keys[k].expires_at > t)

\* rate_limit = api_key_data.rate_limit or DEFAULT_RATE_LIMIT
EffectiveRateLimit(rate_limit) ==
    IF rate_limit = 0 THEN DEFAULT_RATE_LIMIT ELSE rate_limit

\* FraudService._calculate_risk_level
_calculate_risk_level(fraud_score) ==
    IF fraud_score < FRAUD_SCORE_LOW_THRESHOLD THEN RISK_LEVEL_LOW
    ELSE IF fraud_score < FRAUD_SCORE_MEDIUM_THRESHOLD THEN RISK_LEVEL_MEDIUM
    ELSE IF fraud_score < FRAUD_SCORE_HIGH_THRESHOLD THEN RISK_LEVEL_HIGH
    ELSE RISK_LEVEL_CRITICAL

_generate_recommendation_by_level(fraud_score, risk_level) ==
    IF risk_level = RISK_LEVEL_LOW THEN RECOMMENDATION_APPROVE
    ELSE IF risk_level = RISK_LEVEL_MEDIUM THEN RECOMMENDATION_REVIEW
    ELSE RECOMMENDATION_DECLINE

\* FraudService._generate_recommendation
_generate_recommendation(fraud_score, risk_level) ==
    IF risk_level = RISK_LEVEL_LOW THEN RECOMMENDATION_APPROVE
    ELSE IF risk_level = RISK_LEVEL_MEDIUM THEN RECOMMENDATION_REVIEW
    ELSE IF risk_level = RISK_LEVEL_HIGH
         THEN (IF fraud_score < HIGH_RISK_DECLINE_SCORE
               THEN RECOMMENDATION_REVIEW ELSE RECOMMENDATION_DECLINE)
    ELSE RECOMMENDATION_DECLINE

\* Attributes of the pydantic DTOs and keys of MLService.predict's result
CustomerDataFields == {"id", "email", "phone", "ip_address", "device_fingerprint"}
CreateTransactionDtoFields ==
    {"transaction_id", "amount", "currency", "timestamp", "customer", "payment_method"}
MLResultKeys == {"fraud_score", "risk_level", "recommendation", "model_version"}

\* FraudService._calculate_fraud_score: building transaction_dict reads
\* customer.customer_id and transaction_data.merchant; a missing attribute
\* raises inside the try block and the except branch returns 0.0.  Otherwise
\* the score is ml_result.get('fraud_probability', 0.0).
_calculate_fraud_score(ml_score) ==
    IF /\ "customer_id" \in CustomerDataFields
       /\ "merchant" \in CreateTransactionDtoFields
    THEN (IF "fraud_probability" \in MLResultKeys THEN ml_score ELSE 0)
    ELSE 0

_generate_cache_key_unbucketed(email, t) == <<email, 0>>

\* CacheRepository._generate_cache_key("velocity", email, 60)
_generate_cache_key(email, t) == <<email, t \div VELOCITY_BUCKET_SECONDS>>

\* CustomerData.validate_ip_address: TRUE iff the validator raises ValueError
validate_ip_address_raises(ip) ==
    \/ Len(ip) # 4
    \/ \E n \in 1..Len(ip) : ip[n] > 255
    \/ ip[1] = 10
    \/ (ip[1] = 172 /\ 16 <= ip[2] /\ ip[2] <= 31)
    \/ (ip[1] = 192 /\ ip[2] = 168)
    \/ ip[1] = 127

body_errors_optional_fields(body) ==
    IF "customer" \in body.fields /\ validate_ip_address_raises(body.ip_address)
    THEN {"value_error"} ELSE {}

\* Parsing the request body into CreateTransactionDto: the errors pydantic
\* collects (fields declared with Field(...) are required)
body_errors(body) ==
    (IF RequiredFields \subseteq body.fields THEN {} ELSE {"missing"})
    \cup (IF "customer" \in body.fields
              /\ validate_ip_address_raises(body.ip_address)
          THEN {"value_error"} ELSE {})

\* The status of the response to a body that fails validation: the app
\* registers no handler of its own for RequestValidationError
HTTP_422_UNPROCESSABLE_ENTITY == 422
validation_status(errors) == HTTP_422_UNPROCESSABLE_ENTITY

add_middleware_order_auth_inside ==
    <<"CORSMiddleware", "MetricsMiddleware", "SecurityHeadersMiddleware",
      "AuthMiddleware", "RateLimitMiddleware">>

\* main.py registers the middlewares in this order; the one added last is
\* the outermost
add_middleware_order ==
    <<"CORSMiddleware", "MetricsMiddleware", "SecurityHeadersMiddleware",
      "RateLimitMiddleware", "AuthMiddleware">>

\* A response produced by `producer` ("endpoint" or a middleware) passes, on
\* its way out, through the middlewares outside the producer: those
\* registered after it
PassesThrough(producer, middleware) ==
    \E m \in 1..Len(add_middleware_order) :
       /\ add_middleware_order[m] = middleware
       /\ \/ producer = "endpoint"
          \/ \E p \in 1..Len(add_middleware_order) :
                add_middleware_order[p] = producer /\ m > p

\* SecurityHeadersMiddleware.dispatch: X-Content-Type-Options, X-Frame-Options,
\* Strict-Transport-Security and X-Request-ID are set on the response
SecurityHeadersDispatch(producer, rsp) ==
    IF PassesThrough(producer, "SecurityHeadersMiddleware")
    THEN [rsp EXCEPT !.security_headers = TRUE]
    ELSE rsp

\* ----------------------------------------------------------- Redis state

\* The sorted set as Redis sees it at time t (an expired key is gone)
ZLive(k, t) ==
    IF rl_ttl[k] # NULL /\ t >= rl_ttl[k] THEN {} ELSE rl_zset[k]

TTLLive(k, t) ==
    IF rl_ttl[k] # NULL /\ t >= rl_ttl[k] THEN NULL ELSE rl_ttl[k]

zremrangebyscore_below(zs, lo, hi) == {m \in zs : ~(lo <= m /\ m < hi)}

\* zremrangebyscore(key, 0, window_start)
zremrangebyscore(zs, lo, hi) == {m \in zs : ~(lo <= m /\ m <= hi)}

\* zadd(key, {str(current_time): current_time}): member and score coincide
zadd(zs, current_time) == zs \cup {current_time}

remaining_used(limit, current_count) == current_count

\* remaining = limit - current_count - 1
remaining_quota(limit, current_count) == limit - current_count - 1

\* ------------------------------------------------------- request records
NoApiKey == [id |-> "none", rate_limit |-> 0]
NoVelocity == [customer_tx_count_1h |-> NULL, customer_tx_count_24h |-> NULL]
NoKey == <<"none", NULL>>
NoText == <<>>
NoL1 == [key |-> NoKey, value |-> NoVelocity]
NoResp == [fraud_score |-> NULL, risk_level |-> "none", recommendation |-> "none",
           remaining |-> NULL, limit |-> NULL, retry_after |-> FALSE,
           detail |-> FALSE, security_headers |-> FALSE]

IdleReq ==
    [pc |-> "idle", inst |-> 0, hdr |-> "none", txid |-> "none",
     email |-> "none", api_key |-> NoApiKey, current_time |-> NULL,
     current_count |-> NULL, remaining |-> NULL, velocity |-> NoVelocity,
     status |-> 0, resp |-> NoResp,
     \* history of this request
     lookup |-> "none",          \* was the key valid when it was looked up
     auth_error |-> FALSE,       \* the Prisma client could not connect
     incremented |-> FALSE,      \* request_count was incremented for it
     rl_touched |-> FALSE,       \* its check wrote to the sorted set
     rl_checked |-> FALSE,       \* check_rate_limit was called for it
     rl_allowed |-> FALSE,       \* the rate limiter let it pass
     kv_error |-> FALSE,         \* a Redis call of its check raised
     in_window |-> FALSE,        \* checked less than 60 s after the key's
                                 \* first check
     sequential |-> FALSE,       \* in_window, and so far no request of its
                                 \* key overlapped another or met a Redis error
     prior_admitted |-> 0,       \* requests of its key admitted before it
     prev_remaining |-> NULL,    \* X-RateLimit-Remaining of the key's previous
                                 \* allowed response
     at_endpoint |-> FALSE,      \* it was handed to the route of the endpoint
     body |-> "none",            \* the body it carried
     scoring |-> FALSE,          \* score_transaction was called for it
     l1_cache |-> NoL1,          \* L1 of the CacheService built for it
     cache_due |-> NoVelocity,   \* what the velocity cache owed its get
     cache_got |-> NoVelocity,   \* what its get returned
     get_failed |-> FALSE,       \* the Redis read of its get raised
     set_failed |-> FALSE,       \* the Redis write of its set raised
     cache_age |-> NULL,         \* seconds since the set its get was served
                                 \* from, NULL if the get missed
     read_bucket |-> NULL,       \* the 60 s bucket in which it read the
                                 \* snapshot it is about to cache
     persisted_at_arrival |->    \* rows of each customer when it arrived
        [e \in Emails |-> 0],
     vel_db_failed |-> FALSE,    \* a velocity query raised
     insert_failed |-> FALSE,    \* the insert of its row raised
     wrote_row |-> FALSE]        \* it added a row to transactions

\* History of a key: time of its first rate-limit check, number of its
\* requests admitted within 60 s of that, X-RateLimit-Remaining of its latest
\* allowed response, whether a Redis call of one of its checks raised,
\* whether all its requests so far were handled one after another
NoMon == [first_time |-> NULL, admitted |-> 0, last_remaining |-> NULL,
          kv_failed |-> FALSE, serial |-> TRUE]

Done(r) == req[r].pc = "done"
InFlight == {r \in Reqs : req[r].pc \notin {"idle", "done"}}

\* A call to the database or to Redis succeeds ("ok") or raises; the number
\* of failures in one behaviour is bounded
Outcomes(failures) == IF faults < MaxFaults THEN {"ok"} \cup failures ELSE {"ok"}
Count(outcome) == faults' = IF outcome = "ok" THEN faults ELSE faults + 1

\* The response produced by `producer` leaves the middleware stack
Respond(r, producer, st, rsp, hist) ==
    req' = [req EXCEPT ![r] = [hist EXCEPT !.pc = "done", !.status = st,
                                            !.resp = SecurityHeadersDispatch(
                                                        producer, rsp),
                                            !.current_time = NULL,
                                            !.current_count = NULL]]

\* A key of the velocity cache that was never set (the last four fields
\* are history: the latest successful CacheService.set of the key)
NoEntry == [bucket |-> NULL, value |-> NoText, expires |-> NULL,
            set_key |-> NoKey, set_value |-> NoVelocity, set_at |-> NULL,
            set_ttl |-> NULL, read_bucket |-> NULL]

\* ------------------------------------------------------------------ Init
InitKeys(fixture) ==
    [k \in KeyIds |->
        IF k = "idA"
        THEN [key_hash |-> hash_api_key("kA"),
              rate_limit |-> IF fixture = "plain" THEN MaxRateLimit ELSE 1,
              is_active |-> TRUE,
              expires_at |-> IF fixture = "plain" THEN NULL ELSE ExpiresAt,
              request_count |-> 0]
        ELSE [key_hash |-> hash_api_key("kI"), rate_limit |-> 1,
              is_active |-> FALSE, expires_at |-> NULL, request_count |-> 0]]

ProbeOff == [pc |-> "off", fraud_score |-> 0, risk_level |-> "none",
             recommendation |-> "none"]

InitState ==
    /\ now = 0
    /\ \E fixture \in Fixtures : api_keys = InitKeys(fixture)
    /\ transactions = {}
    /\ prisma_client = [i \in Instances |-> "none"]
    /\ redis_client = [i \in Instances |-> "none"]
    /\ rl_zset = [k \in KeyIds |-> {}]
    /\ rl_ttl = [k \in KeyIds |-> NULL]
    /\ kv_cache = [e \in Emails |-> NoEntry]
    /\ req = [r \in Reqs |-> IdleReq]
    /\ arrived = 0
    /\ mon = [k \in KeyIds |-> NoMon]
    /\ faults = 0

Init ==
    /\ InitState
    /\ probe = ProbeOff

\* ------------------------------------------------------------ actions

get_customer_transaction_count_any(rows, email) ==
    Cardinality({row \in rows : row.customer_email # email})

\* TransactionRepository.get_customer_transaction_count(email, hours): every
\* time of the model lies within the hour before any other
get_customer_transaction_count(rows, email) ==
    Cardinality({row \in rows : row.customer_email = email})

\* A client sends POST /api/v1/fraud/score and the load balancer hands it to
\* instance r; at most cap requests are in progress at a time and total
\* requests are sent in all.  The records of answered requests are dropped.
Arrive(r, cap, total) ==
    /\ req[r].pc \in {"idle", "done"}
    /\ arrived = 0 => r = 1
    /\ arrived < total
    /\ Cardinality(InFlight) < cap
    /\ arrived' = arrived + 1
    /\ \E h \in Headers :
          req' = [o \in Reqs |->
                    IF o = r
                    THEN [IdleReq EXCEPT
                            !.pc = "auth", !.inst = r, !.hdr = h,
                            !.persisted_at_arrival =
                               [e \in Emails |->
                                  Cardinality({row \in transactions :
                                                 row.customer_email = e})]]
                    ELSE IF req[o].pc = "done" THEN IdleReq ELSE req[o]]
    /\ UNCHANGED <<now, api_keys, transactions, prisma_client, redis_client,
                   rl_zset, rl_ttl, kv_cache, faults, mon, probe>>

\* Failures the key lookup of an instance can meet: the first use of the
\* Prisma client connects, later uses only query
AuthFailures(i) ==
    (IF prisma_client[i] = "none" THEN {"connect_fail"} ELSE {})
    \cup (IF prisma_client[i] = "unconnected" THEN {} ELSE {"query_fail"})

\* AuthMiddleware.dispatch up to the key lookup: header check, get_prisma
\* (first use connects), ApiKeyRepository.find_by_key_hash
AuthLookup(r, outcome) ==
    LET i == req[r].inst
        key_hash == hash_api_key(req[r].hdr)
        hist == [req[r] EXCEPT !.lookup =
                    IF KeyAuthenticates(api_keys, key_hash, now)
                    THEN "valid" ELSE "invalid"]
        client == IF prisma_client[i] = "none" THEN "connected"
                  ELSE prisma_client[i]
        \* a query on an unconnected client raises; find_by_key_hash
        \* catches every exception and returns None
        found == IF client = "connected" /\ outcome = "ok"
                 THEN find_first(api_keys, key_hash, now)
                 ELSE "none"
    IN
    IF outcome = "connect_fail"
    THEN \* Prisma().connect() raises: except branch of dispatch
         /\ prisma_client' = [prisma_client EXCEPT ![i] = "unconnected"]
         /\ Respond(r, "AuthMiddleware", 500, [NoResp EXCEPT !.detail = TRUE],
                    [hist EXCEPT !.auth_error = TRUE])
    ELSE /\ prisma_client' = [prisma_client EXCEPT ![i] = client]
         /\ IF found = "none"
            THEN \* Invalid API key
                 Respond(r, "AuthMiddleware", 401,
                         [NoResp EXCEPT !.detail = TRUE], hist)
            ELSE req' = [req EXCEPT ![r] =
                            [hist EXCEPT !.pc = "auth_incr",
                                         !.api_key =
                                            [id |-> found,
                                             rate_limit |->
                                                api_keys[found].rate_limit]]]

AuthDispatch(r) ==
    /\ req[r].pc = "auth"
    /\ IF req[r].hdr = "none"
       THEN \* Missing API key
            /\ Respond(r, "AuthMiddleware", 401,
                       [NoResp EXCEPT !.detail = TRUE], req[r])
            /\ UNCHANGED <<prisma_client, faults>>
       ELSE \E outcome \in Outcomes(AuthFailures(req[r].inst)) :
               /\ Count(outcome)
               /\ AuthLookup(r, outcome)
    /\ UNCHANGED <<now, api_keys, transactions, redis_client, rl_zset, rl_ttl,
                   kv_cache, arrived, mon, probe>>

increment_request_count_propagates(outcome) == outcome # "ok"

\* ApiKeyRepository.increment_request_count: an exception of the update is
\* caught and False returned, so the call never raises
increment_request_count_raises(outcome) == FALSE

\* AuthMiddleware.dispatch after the lookup: the key record is attached to
\* the request, request_count and last_used_at are updated, and the request
\* is passed on; whatever raises here is answered 500
AuthIncrement(r) ==
    /\ req[r].pc = "auth_incr"
    /\ \E outcome \in Outcomes({"update_fail"}) :
          /\ Count(outcome)
          /\ api_keys' = IF outcome = "ok"
                         THEN [api_keys EXCEPT
                                  ![req[r].api_key.id].request_count = @ + 1]
                         ELSE api_keys
          /\ IF increment_request_count_raises(outcome)
             THEN Respond(r, "AuthMiddleware", 500,
                          [NoResp EXCEPT !.detail = TRUE],
                          [req[r] EXCEPT !.auth_error = TRUE])
             ELSE req' = [req EXCEPT ![r] =
                             [@ EXCEPT !.pc = "rl",
                                       !.incremented = (outcome = "ok")]]
    /\ UNCHANGED <<now, transactions, prisma_client, redis_client, rl_zset,
                   rl_ttl, kv_cache, arrived, mon, probe>>

\* History: another request of the same key is in progress
Overlaps(r) ==
    \E o \in Reqs \ {r} : /\ req[o].pc \notin {"idle", "done"}
                          /\ req[o].hdr = req[r].hdr

\* History: the key's record of earlier requests when request r is checked
MonAtCheck(r, admitted, failed) ==
    LET k == req[r].api_key.id
        m == mon[k]
        first == IF m.first_time = NULL THEN now ELSE m.first_time
    IN  [m EXCEPT !.first_time = first,
                  !.kv_failed = m.kv_failed \/ failed,
                  !.serial = m.serial /\ ~Overlaps(r),
                  !.admitted = IF admitted /\ now < first + DEFAULT_WINDOW
                               THEN @ + 1 ELSE @]

\* History: request r when it is checked
HistAtCheck(r, admitted, failed) ==
    LET k == req[r].api_key.id
        m == MonAtCheck(r, admitted, failed)
        in_window == now < m.first_time + DEFAULT_WINDOW
    IN  [req[r] EXCEPT !.prior_admitted = mon[k].admitted,
                       !.in_window = in_window,
                       !.sequential = in_window /\ m.serial /\ ~m.kv_failed,
                       !.rl_checked = TRUE,
                       !.rl_allowed = admitted,
                       !.kv_error = failed,
                       !.current_time = now]

FailClosed(r, hist) ==
    Respond(r, "RateLimitMiddleware", 429,
            [NoResp EXCEPT !.detail = TRUE, !.remaining = 0,
                           !.retry_after = TRUE],
            [hist EXCEPT !.kv_error = TRUE])

\* The except branch of check_rate_limit: return True, limit
FailOpen(r, hist) ==
    req' = [req EXCEPT ![r] =
               [hist EXCEPT !.pc = "vel_get", !.kv_error = TRUE,
                            !.rl_allowed = TRUE, !.sequential = FALSE,
                            !.remaining =
                               EffectiveRateLimit(req[r].api_key.rate_limit)]]

denied_entries_recorded(pruned, current_time) == zadd(pruned, current_time)

\* check_rate_limit, branch current_count >= limit: remaining = 0 and
\* allowed = False, and nothing is written to the sorted set
denied_entries(pruned, current_time) == pruned

\* The pipeline of check_rate_limit (zremrangebyscore + zcard) and the
\* comparison with the limit
RateLimitPipeline(r) ==
    LET k == req[r].api_key.id
        limit == EffectiveRateLimit(req[r].api_key.rate_limit)
        current_time == now
        window_start == current_time - DEFAULT_WINDOW
        pruned == zremrangebyscore(ZLive(k, now), 0, window_start)
        current_count == Cardinality(pruned)
        counted == [HistAtCheck(r, current_count < limit, FALSE) EXCEPT
                       !.rl_touched = TRUE]
    IN
    /\ rl_zset' = [rl_zset EXCEPT ![k] =
                      IF current_count >= limit
                      THEN denied_entries(pruned, current_time) ELSE pruned]
    /\ rl_ttl' = [rl_ttl EXCEPT ![k] =
                     IF pruned = {} THEN NULL ELSE TTLLive(k, now)]
    /\ mon' = [mon EXCEPT ![k] = MonAtCheck(r, current_count < limit, FALSE)]
    /\ IF current_count >= limit
       THEN \* 429 with X-RateLimit-Remaining: 0 and Retry-After
            Respond(r, "RateLimitMiddleware", 429,
                    [NoResp EXCEPT !.detail = TRUE, !.remaining = 0,
                                   !.limit = limit, !.retry_after = TRUE],
                    [counted EXCEPT !.remaining = 0])
       ELSE req' = [req EXCEPT ![r] =
                       [counted EXCEPT !.pc = "rl_add",
                                       !.current_count = current_count]]

\* RateLimitMiddleware.dispatch: get_redis_client, then the first half of
\* RateLimiter.check_rate_limit
RateLimitCount(r) ==
    /\ req[r].pc = "rl"
    /\ LET i == req[r].inst
           k == req[r].api_key.id
       IN
       \E outcome \in Outcomes((IF redis_client[i] = "none"
                                THEN {"ping_fail"} ELSE {})
                               \cup {"pipe_fail"}) :
          /\ Count(outcome)
          /\ redis_client' = [redis_client EXCEPT ![i] = "set"]
          /\ IF outcome = "ping_fail"
             THEN \* get_redis_client raises: the middleware fails open and
                  \* the response gets no rate-limit headers
                  /\ req' = [req EXCEPT ![r] =
                                [HistAtCheck(r, TRUE, TRUE) EXCEPT
                                    !.pc = "vel_get", !.rl_checked = FALSE]]
                  /\ mon' = [mon EXCEPT ![k] = MonAtCheck(r, TRUE, TRUE)]
                  /\ UNCHANGED <<rl_zset, rl_ttl>>
             ELSE IF outcome = "pipe_fail"
             THEN /\ FailOpen(r, HistAtCheck(r, TRUE, TRUE))
                  /\ mon' = [mon EXCEPT ![k] = MonAtCheck(r, TRUE, TRUE)]
                  /\ UNCHANGED <<rl_zset, rl_ttl>>
             ELSE RateLimitPipeline(r)
    /\ UNCHANGED <<now, api_keys, transactions, prisma_client, kv_cache,
                   arrived, probe>>

\* History: a Redis call of an admitted request's check raised
MonFailed(r) ==
    [mon EXCEPT ![req[r].api_key.id] =
        [@ EXCEPT !.kv_failed = TRUE]]

\* check_rate_limit, else branch: self.redis.zadd(...)
RateLimitAdd(r) ==
    /\ req[r].pc = "rl_add"
    /\ \E outcome \in Outcomes({"zadd_fail"}) :
          /\ Count(outcome)
          /\ IF outcome = "ok"
             THEN LET k == req[r].api_key.id IN
                  /\ rl_zset' = [rl_zset EXCEPT ![k] =
                                    zadd(ZLive(k, now), req[r].current_time)]
                  /\ rl_ttl' = [rl_ttl EXCEPT ![k] = TTLLive(k, now)]
                  /\ req' = [req EXCEPT ![r] = [@ EXCEPT !.pc = "rl_expire"]]
                  /\ UNCHANGED mon
             ELSE /\ FailOpen(r, req[r])
                  /\ mon' = MonFailed(r)
                  /\ UNCHANGED <<rl_zset, rl_ttl>>
    /\ UNCHANGED <<now, api_keys, transactions, prisma_client, redis_client,
                   kv_cache, arrived, probe>>

\* check_rate_limit, else branch: self.redis.expire(key, window + 10) and
\* remaining = limit - current_count - 1
RateLimitExpire(r) ==
    /\ req[r].pc = "rl_expire"
    /\ \E outcome \in Outcomes({"expire_fail"}) :
          /\ Count(outcome)
          /\ IF outcome = "ok"
             THEN LET k == req[r].api_key.id
                      limit == EffectiveRateLimit(req[r].api_key.rate_limit)
                  IN
                  /\ rl_zset' = [rl_zset EXCEPT ![k] = ZLive(k, now)]
                  /\ rl_ttl' = [rl_ttl EXCEPT ![k] =
                                   IF ZLive(k, now) = {} THEN NULL
                                   ELSE now + DEFAULT_WINDOW
                                        + RATE_LIMIT_TTL_BUFFER]
                  /\ req' = [req EXCEPT ![r] =
                                [@ EXCEPT !.pc = "vel_get",
                                          !.remaining =
                                             remaining_quota(limit,
                                                req[r].current_count)]]
                  /\ UNCHANGED mon
             ELSE /\ FailOpen(r, req[r])
                  /\ mon' = MonFailed(r)
                  /\ UNCHANGED <<rl_zset, rl_ttl>>
    /\ UNCHANGED <<now, api_keys, transactions, prisma_client, redis_client,
                   kv_cache, arrived, probe>>

\* Headers RateLimitMiddleware adds to whatever the endpoint returned
WithRateLimitHeaders(r, rsp) ==
    IF req[r].remaining = NULL THEN rsp
    ELSE [rsp EXCEPT !.remaining = req[r].remaining,
                     !.limit = EffectiveRateLimit(req[r].api_key.rate_limit)]

\* The endpoint's response to a request the rate limiter let pass;
\* RateLimitMiddleware adds its headers to it
EndpointRespond(r, st, rsp, hist) ==
    LET k == req[r].api_key.id IN
    /\ Respond(r, "endpoint", st, WithRateLimitHeaders(r, rsp),
               [hist EXCEPT !.prev_remaining = mon[k].last_remaining,
                            !.sequential = /\ hist.sequential
                                           /\ mon[k].serial
                                           /\ ~mon[k].kv_failed])
    /\ mon' = [mon EXCEPT ![k].last_remaining =
                  IF req[r].remaining = NULL THEN @ ELSE req[r].remaining]

\* FastAPI parses the body into a CreateTransactionDto before it calls the
\* endpoint; a body with errors is answered by the framework and
\* score_transaction is not called
ValidationReject(r) ==
    /\ req[r].pc = "vel_get"
    /\ \E body \in Bodies :
          /\ body_errors(body) # {}
          /\ EndpointRespond(r, validation_status(body_errors(body)),
                             [NoResp EXCEPT !.detail = TRUE],
                             [req[r] EXCEPT !.at_endpoint = TRUE,
                                            !.body = body.name])
    /\ UNCHANGED <<now, api_keys, transactions, prisma_client, redis_client,
                   rl_zset, rl_ttl, kv_cache, arrived, faults, probe>>

\* CacheService._serialize: json.dumps of the velocity dict, written as the
\* list of its members
_serialize(value) ==
    <<value.customer_tx_count_1h, value.customer_tx_count_24h>>

\* CacheService._deserialize: json.loads
_deserialize(text) ==
    [customer_tx_count_1h |-> text[1], customer_tx_count_24h |-> text[2]]

\* redis.get(key) at time t: the stored text, or nothing
redis_get(entry, key, t) ==
    IF entry.bucket = key[2] /\ t < entry.expires THEN entry.value ELSE NoText

\* CacheService.get: L1, then L2 (a hit fills L1), then None; an exception
\* is swallowed and None returned.  The result and the new L1.
CacheService_get(l1_cache, entry, key, t, redis_ok) ==
    IF l1_cache.key = key
    THEN [value |-> l1_cache.value, l1_cache |-> l1_cache]
    ELSE IF ~redis_ok
    THEN [value |-> NoVelocity, l1_cache |-> l1_cache]
    ELSE IF redis_get(entry, key, t) # NoText
    THEN LET value == _deserialize(redis_get(entry, key, t))
         IN  [value |-> value, l1_cache |-> [key |-> key, value |-> value]]
    ELSE [value |-> NoVelocity, l1_cache |-> l1_cache]

\* History: the value a get of `key` at time t is due, NoVelocity if the
\* latest successful set of the key is older than its TTL or there is none
DueFromCache(entry, key, t) ==
    IF entry.set_key = key /\ t < entry.set_at + entry.set_ttl
    THEN entry.set_value ELSE NoVelocity

\* The endpoint is called with the parsed body; get_fraud_service has built
\* a CacheService of its own (empty L1).  Then
\* FraudService._extract_velocity_features, cache lookup:
\* CacheRepository.get_velocity_features -> CacheService.get
VelocityCacheGet(r) ==
    /\ req[r].pc = "vel_get"
    /\ \E outcome \in Outcomes({"get_fail"}), t \in TxIds, e \in Emails,
          body \in Bodies :
          LET key == _generate_cache_key(e, now)
              got == CacheService_get(NoL1, kv_cache[e], key, now,
                                      outcome = "ok")
              hist == [req[r] EXCEPT
                          !.at_endpoint = TRUE, !.scoring = TRUE,
                          !.body = body.name, !.txid = t, !.email = e,
                          !.l1_cache = got.l1_cache,
                          !.cache_due = DueFromCache(kv_cache[e], key, now),
                          !.cache_got = got.value,
                          !.cache_age = IF got.value = NoVelocity THEN NULL
                                        ELSE now - kv_cache[e].set_at,
                          !.get_failed = (outcome # "ok")]
          IN
          /\ body_errors(body) = {}
          /\ Count(outcome)
          /\ req' = [req EXCEPT ![r] =
                        IF got.value # NoVelocity
                        THEN [hist EXCEPT !.pc = "save",
                                          !.velocity = got.value]
                        ELSE [hist EXCEPT !.pc = "vel_db"]]
    /\ UNCHANGED <<now, api_keys, transactions, prisma_client, redis_client,
                   rl_zset, rl_ttl, kv_cache, arrived, mon, probe>>

\* _extract_velocity_features, cache miss: the transaction-store queries;
\* any of them raising is re-raised and the endpoint answers 500
VelocityFromDb(r) ==
    /\ req[r].pc = "vel_db"
    /\ \E outcome \in Outcomes({"query_fail"}) :
          /\ Count(outcome)
          /\ IF outcome = "ok"
             THEN LET n == get_customer_transaction_count(transactions,
                                                          req[r].email)
                  IN
                  /\ req' = [req EXCEPT ![r] =
                             [@ EXCEPT !.pc = "vel_set",
                                       !.read_bucket =
                                          now \div VELOCITY_BUCKET_SECONDS,
                                       !.velocity =
                                          [customer_tx_count_1h |-> n,
                                           customer_tx_count_24h |-> n]]]
                  /\ UNCHANGED mon
             ELSE EndpointRespond(r, 500, [NoResp EXCEPT !.detail = TRUE],
                                  [req[r] EXCEPT !.vel_db_failed = TRUE])
    /\ UNCHANGED <<now, api_keys, transactions, prisma_client, redis_client,
                   rl_zset, rl_ttl, kv_cache, arrived, probe>>

setex_expired(entry, key, ttl, text, t) ==
    [entry EXCEPT !.bucket = key[2], !.value = text, !.expires = t]

\* redis.setex(key, ttl, text) at time t
setex(entry, key, ttl, text, t) ==
    [entry EXCEPT !.bucket = key[2], !.value = text, !.expires = t + ttl]

set_velocity_features_propagates(outcome) == outcome # "ok"

\* CacheService.set and CacheRepository.set_velocity_features: an exception
\* of setex is caught, logged and answered with False
set_velocity_features_raises(outcome) == FALSE

\* _extract_velocity_features: CacheRepository.set_velocity_features ->
\* CacheService.set (L1, then setex with CACHE_VELOCITY_TTL); errors are
\* swallowed and False returned
VelocityCacheSet(r) ==
    /\ req[r].pc = "vel_set"
    /\ \E outcome \in Outcomes({"setex_fail"}) :
          LET e == req[r].email
              key == _generate_cache_key(e, now)
              value == req[r].velocity
              stored == setex(kv_cache[e], key, CACHE_VELOCITY_TTL,
                              _serialize(value), now)
              hist == [req[r] EXCEPT
                          !.set_failed = (outcome # "ok"),
                          !.read_bucket = NULL,
                          !.l1_cache = [key |-> key, value |-> value]]
          IN
          /\ Count(outcome)
          /\ kv_cache' = IF outcome = "ok"
                         THEN [kv_cache EXCEPT ![e] =
                                  [stored EXCEPT !.set_key = key,
                                                 !.set_value = value,
                                                 !.set_at = now,
                                                 !.read_bucket =
                                                    req[r].read_bucket,
                                                 !.set_ttl = CACHE_VELOCITY_TTL]]
                         ELSE kv_cache
          /\ IF set_velocity_features_raises(outcome)
             THEN EndpointRespond(r, 500, [NoResp EXCEPT !.detail = TRUE],
                                  hist)
             ELSE /\ req' = [req EXCEPT ![r] = [hist EXCEPT !.pc = "save"]]
                  /\ UNCHANGED mon
    /\ UNCHANGED <<now, api_keys, transactions, prisma_client, redis_client,
                   rl_zset, rl_ttl, arrived, probe>>

transaction_id_free(rows, txid) == FALSE

\* The unique index of the transactions table on transaction_id (the
\* "unique" business identifier, looked up with find_unique)
transaction_id_taken(rows, txid) ==
    \E row \in rows : row.transaction_id = txid

\* BaseRepository.create on the transactions table: the insert succeeds
\* unless the database call fails or transaction_id is already taken
create_succeeds(create_ok, rows, txid) ==
    /\ create_ok
    /\ ~transaction_id_taken(rows, txid)

_save_transaction_swallows(created) == FALSE

\* FraudService._save_transaction: an exception of the insert is logged and
\* re-raised
_save_transaction_raises(created) == ~created

endpoint_status_ok(raised) == 200

\* The endpoint: the result of score_transaction is returned as 200, any
\* exception becomes HTTPException 500
endpoint_status(raised) == IF raised THEN 500 ELSE 200

\* score_transaction steps 2-6 and the endpoint's error mapping: score,
\* risk level, recommendation, insert, then the response body
ScoreAndSave(r) ==
    /\ req[r].pc = "save"
    /\ \E ml_score \in MLScores, outcome \in Outcomes({"create_fail"}) :
          LET fraud_score == _calculate_fraud_score(ml_score)
              risk_level == _calculate_risk_level(fraud_score)
              recommendation == _generate_recommendation(fraud_score, risk_level)
              row == [transaction_id |-> req[r].txid,
                      customer_email |-> req[r].email,
                      fraud_score |-> fraud_score,
                      risk_level |-> risk_level,
                      decision |-> recommendation]
              created == create_succeeds(outcome = "ok", transactions,
                                         req[r].txid)
              status == endpoint_status(_save_transaction_raises(created))
              hist == [req[r] EXCEPT !.insert_failed = ~created,
                                     !.wrote_row = created]
          IN
          /\ Count(outcome)
          /\ transactions' = IF created THEN transactions \cup {row}
                             ELSE transactions
          /\ IF status = 200
             THEN EndpointRespond(r, 200,
                                  [NoResp EXCEPT !.fraud_score = fraud_score,
                                                 !.risk_level = risk_level,
                                                 !.recommendation = recommendation],
                                  hist)
             ELSE EndpointRespond(r, status, [NoResp EXCEPT !.detail = TRUE],
                                  hist)
    /\ UNCHANGED <<now, api_keys, prisma_client, redis_client, rl_zset, rl_ttl,
                   kv_cache, arrived, probe>>

\* Time passes
Tick ==
    /\ \E t \in TimePoints : t > now /\ now' = t
    /\ UNCHANGED <<api_keys, transactions, prisma_client, redis_client, rl_zset,
                   rl_ttl, kv_cache, req, arrived, faults, mon, probe>>

Step(r) ==
    \/ AuthDispatch(r)
    \/ AuthIncrement(r)
    \/ RateLimitCount(r)
    \/ RateLimitAdd(r)
    \/ RateLimitExpire(r)
    \/ ValidationReject(r)
    \/ VelocityCacheGet(r)
    \/ VelocityFromDb(r)
    \/ VelocityCacheSet(r)
    \/ ScoreAndSave(r)

\* MaxReq requests handled one after another by one instance; dependencies
\* may fail
Next ==
    \/ Tick
    \/ Arrive(1, 1, MaxReq)
    \/ \E r \in Reqs : Step(r)

Spec == Init /\ [][Next]_vars

\* One request per instance, handled concurrently
InitConcurrent ==
    /\ InitState
    /\ probe = ProbeOff

NextConcurrent ==
    \/ Tick
    \/ \E r \in Reqs : Arrive(r, Cardinality(Instances), Cardinality(Instances))
    \/ \E r \in Reqs : Step(r)

SpecConcurrent == InitConcurrent /\ [][NextConcurrent]_vars

\* Two clients that hold the valid key, one request per instance, handled
\* concurrently while every dependency answers
InitConcurrentScore ==
    /\ now = 0
    /\ api_keys = InitKeys("plain")
    /\ transactions = {}
    /\ prisma_client = [i \in Instances |-> "none"]
    /\ redis_client = [i \in Instances |-> "none"]
    /\ rl_zset = [k \in KeyIds |-> {}]
    /\ rl_ttl = [k \in KeyIds |-> NULL]
    /\ kv_cache = [e \in Emails |-> NoEntry]
    /\ req = [r \in Reqs |-> IdleReq]
    /\ arrived = 0
    /\ mon = [k \in KeyIds |-> NoMon]
    /\ faults = MaxFaults
    /\ probe = ProbeOff

NextConcurrentScore ==
    \/ Tick
    \/ \E r \in Reqs :
          /\ Arrive(r, Cardinality(Instances), Cardinality(Instances))
          /\ req'[r].hdr = "kA"
    \/ \E r \in Reqs : Step(r)

SpecConcurrentScore == InitConcurrentScore /\ [][NextConcurrentScore]_vars

\* -------------------------------------------------------- the admin flow
\* The admin client, which sends DELETEs until one succeeds, before its first
\* DELETE: status of its latest response,
\* and the time at which the deactivation of the customer's key completed
\* (history)
AdminOff == [pc |-> "admin", status |-> 0, deactivated_at |-> NULL]

deactivate_key_noop(rec) == rec

\* ApiKeyRepository.deactivate_key: update(data = {is_active: False})
deactivate_key(rec) == [rec EXCEPT !.is_active = FALSE]

\* DELETE /api/v1/admin/api-keys/<key_id> handled by instance i: get_prisma
\* (first use connects), find_by_id (None on any exception) -> 404,
\* deactivate_key (False on any exception) -> 500, else 204
DeactivateApiKey(i, key_id) ==
    /\ probe.pc = "admin"
    /\ \E outcome \in Outcomes(AuthFailures(i) \cup {"update_fail"}) :
          LET client == IF prisma_client[i] # "none" THEN prisma_client[i]
                        ELSE IF outcome = "connect_fail" THEN "unconnected"
                        ELSE "connected"
              existing_key == /\ client = "connected"
                              /\ outcome # "query_fail"
                              /\ key_id \in KeyIds
              success == existing_key /\ outcome = "ok"
              st == IF outcome = "connect_fail" THEN 500
                    ELSE IF ~existing_key THEN 404
                    ELSE IF ~success THEN 500
                    ELSE 204
          IN  /\ Count(outcome)
              /\ prisma_client' = [prisma_client EXCEPT ![i] = client]
              /\ api_keys' = IF success
                             THEN [api_keys EXCEPT
                                      ![key_id] = deactivate_key(@)]
                             ELSE api_keys
              /\ probe' = [probe EXCEPT
                              !.pc = IF success THEN "deactivated" ELSE @,
                              !.status = st,
                              !.deactivated_at =
                                 IF success /\ @ = NULL THEN now ELSE @]
    /\ UNCHANGED <<now, transactions, redis_client, rl_zset, rl_ttl, kv_cache,
                   req, arrived, mon>>

\* The customer's key does not expire: only the deactivation invalidates it
InitAdmin ==
    /\ InitState
    /\ api_keys = InitKeys("plain")
    /\ probe = AdminOff

\* Score requests with the customer's key, all for one transaction, handled
\* one after another by one instance, while an admin whose requests the
\* other instance handles deactivates the key
NextAdmin ==
    \/ Tick
    \/ Arrive(1, 1, MaxReq - 1) /\ req'[1].hdr = "kA"
    \/ \E r \in Reqs : Step(r) /\ req'[r].txid \in {"none", "tx-1"}
    \/ DeactivateApiKey(2, "idA")

SpecAdmin == InitAdmin /\ [][NextAdmin]_vars

\* --------------------------------------------------- the health endpoints
\* Paths as sequences of segments
HealthPaths == {<<"health">>, <<"health", "ready">>}

\* EXCLUDED_PATHS of auth_middleware.py
AUTH_EXCLUDED_PATHS ==
    {<<"health">>, <<"docs">>, <<"openapi.json">>, <<"redoc">>, <<"metrics">>,
     <<"api", "v1", "auth">>, <<"api", "v1", "dashboard">>}

\* any(request.url.path.startswith(path) for path in EXCLUDED_PATHS)
startswith_any(path, excluded) ==
    \E prefix \in excluded :
       /\ Len(prefix) <= Len(path)
       /\ SubSeq(path, 1, Len(prefix)) = prefix

\* The load balancer's prober before its first probe: the path it asked
\* for, the response (status, body status, checks), and what the dependency
\* calls of the handler did (history)
HealthOff == [pc |-> "health", path |-> <<>>, status |-> 0,
              body_status |-> "none", database |-> "none", redis |-> "none",
              timestamp |-> NULL, db_raised |-> FALSE, redis_raised |-> FALSE]

\* health_check: no dependency is touched
health_check(t) ==
    [HealthOff EXCEPT !.path = <<"health">>, !.status = 200,
                      !.body_status = "healthy", !.timestamp = t]

overall_healthy_database(db_ok, redis_ok) == db_ok

\* readiness_check: overall_healthy is cleared by either except branch
overall_healthy(db_ok, redis_ok) == db_ok /\ redis_ok

\* readiness_check, given whether its database probe and its Redis probe
\* went through
readiness_check(db_ok, redis_ok, t) ==
    [HealthOff EXCEPT
        !.path = <<"health", "ready">>,
        !.status = IF overall_healthy(db_ok, redis_ok) THEN 200 ELSE 503,
        !.body_status = IF overall_healthy(db_ok, redis_ok)
                        THEN "healthy" ELSE "unhealthy",
        !.database = IF db_ok THEN "healthy" ELSE "unhealthy",
        !.redis = IF redis_ok THEN "healthy" ELSE "unhealthy",
        !.timestamp = t,
        !.db_raised = ~db_ok,
        !.redis_raised = ~redis_ok]

\* GET of a health path, without X-API-Key, handled by instance i:
\* AuthMiddleware skips excluded paths and answers any other path 401
\* "Missing API key"; RateLimitMiddleware passes on every request that has
\* no key record attached
HealthProbe(i) ==
    /\ probe.pc = "health"
    /\ \E path \in HealthPaths :
          IF ~startswith_any(path, AUTH_EXCLUDED_PATHS)
          THEN /\ probe' = [HealthOff EXCEPT !.path = path, !.status = 401,
                                             !.timestamp = now]
               /\ UNCHANGED <<prisma_client, redis_client, faults>>
          ELSE IF path = <<"health">>
          THEN /\ probe' = health_check(now)
               /\ UNCHANGED <<prisma_client, redis_client, faults>>
          ELSE \* get_prisma + execute_raw, then get_redis_client + ping
               \E db \in {"ok"} \cup AuthFailures(i) :
               \E kv \in {"ok", "ping_fail"} :
                  LET client == IF prisma_client[i] # "none"
                                THEN prisma_client[i]
                                ELSE IF db = "connect_fail" THEN "unconnected"
                                ELSE "connected"
                      db_ok == client = "connected" /\ db = "ok"
                      redis_ok == kv = "ok"
                      raised == (IF db = "ok" THEN 0 ELSE 1)
                                + (IF kv = "ok" THEN 0 ELSE 1)
                  IN  /\ faults + raised <= MaxFaults
                      /\ faults' = faults + raised
                      /\ prisma_client' = [prisma_client EXCEPT ![i] = client]
                      /\ redis_client' = [redis_client EXCEPT ![i] = "set"]
                      /\ probe' = readiness_check(db_ok, redis_ok, now)
    /\ UNCHANGED <<now, api_keys, transactions, rl_zset, rl_ttl, kv_cache, req,
                   arrived, mon>>

InitHealth ==
    /\ InitState
    /\ probe = HealthOff

\* The load balancer probes the instances again and again
NextHealth ==
    \/ Tick
    \/ \E i \in Instances : HealthProbe(i)

SpecHealth == InitHealth /\ [][NextHealth]_vars

\* --------------------------------------------------- the feature pipeline
\* Whole amounts in PEN
Amounts == {5, 1500, 7500, 7503}
\* Customer emails by what the extractor measures of them
EmailInputs ==
    {[address |-> "hot@example.com", domain |-> "example.com",
      length |-> 15, local_length |-> 3, digits |-> 0],
     [address |-> "juan.perez@gmail.com", domain |-> "gmail.com",
      length |-> 20, local_length |-> 10, digits |-> 0],
     [address |-> "x9@tempmail.com", domain |-> "tempmail.com",
      length |-> 15, local_length |-> 2, digits |-> 1]}
\* Transaction timestamps: a Wednesday noon in mid-month and the small hours
\* of a Saturday, the first of a month
Timestamps ==
    {[year |-> 2024, month |-> 5, day |-> 15, hour |-> 12],
     [year |-> 2025, month |-> 3, day |-> 1, hour |-> 3]}
\* Velocity snapshots
VelocitySnapshots ==
    {[customer_tx_count_1h |-> n, customer_tx_count_24h |-> n] : n \in {0, 6, 12}}
\* PYTHONHASHSEED is unset: every worker process draws its own hash seed
HashSeeds == {0, 1}

DISPOSABLE_DOMAINS ==
    {"tempmail.com", "guerrillamail.com", "10minutemail.com",
     "throwaway.email", "mailinator.com", "trashmail.com", "maildrop.cc",
     "yopmail.com", "temp-mail.org"}
FREE_PROVIDERS ==
    {"gmail.com", "yahoo.com", "hotmail.com", "outlook.com", "live.com",
     "aol.com", "icloud.com", "protonmail.com"}
percentile_thresholds == <<10, 25, 50, 100, 200, 500, 1000, 2000, 5000, 10000>>

\* Python's hash() of a str: a keyed hash whose key is the seed of the
\* process, so the value depends on the string and on the seed
str_hash(domain, seed) ==
    LET code == CASE domain = "example.com" -> 11
                  [] domain = "gmail.com" -> 9
                  [] OTHER -> 12
    IN  (code * 7919 + seed * 104729) % (2 ^ 30)

\* dict.get(key, default)
dict_get(d, key, default) == IF key \in DOMAIN d THEN d[key] ELSE default

\* The proleptic Gregorian calendar of datetime: the largest year a datetime
\* can hold, leap years, and the ordinal of a date (1 for 0001-01-01)
MAXYEAR == 9999
_days_in_month(year, month) ==
    LET _is_leap == year % 4 = 0 /\ (year % 100 # 0 \/ year % 400 = 0)
        _DAYS_IN_MONTH == <<31, 28, 31, 30, 31, 30, 31, 31, 30, 31, 30, 31>>
    IN  IF month = 2 /\ _is_leap THEN 29 ELSE _DAYS_IN_MONTH[month]
RECURSIVE _days_before_month(_, _)
_days_before_month(year, month) ==
    IF month = 1 THEN 0
    ELSE _days_before_month(year, month - 1) + _days_in_month(year, month - 1)
toordinal(date) ==
    LET y == date.year - 1
        _days_before_year == y * 365 + (y \div 4) - (y \div 100) + (y \div 400)
    IN  _days_before_year + _days_before_month(date.year, date.month)
        + date.day
\* datetime.weekday(): 0 is Monday
weekday(date) == (toordinal(date) + 6) % 7

\* TimeFeatureExtractor.extract, lines 65-69: the first day of the following
\* month, the time of day kept
next_month(timestamp) ==
    IF timestamp.month = 12
    THEN [timestamp EXCEPT !.year = timestamp.year + 1, !.month = 1, !.day = 1]
    ELSE [timestamp EXCEPT !.month = timestamp.month + 1, !.day = 1]

\* TimeFeatureExtractor.extract, the except branch: the default values
time_features_default ==
    [hour_of_day |-> 12, day_of_week |-> 2, is_weekend |-> 0, is_night |-> 0,
     is_business_hours |-> 1, day_of_month |-> 15, is_month_start |-> 0,
     is_month_end |-> 0]

\* TimeFeatureExtractor.extract of a parsed timestamp; datetime.replace
\* raises ValueError for a year after MAXYEAR, and the except branch answers
\* with the default values
time_features(timestamp) ==
    IF next_month(timestamp).year > MAXYEAR THEN time_features_default
    ELSE
    LET hour == timestamp.hour
        day_of_week == weekday(timestamp)
        day_of_month == timestamp.day
        last_day == toordinal(next_month(timestamp))
                    - toordinal([timestamp EXCEPT !.day = 1])
    IN  [hour_of_day |-> hour,
         day_of_week |-> day_of_week,
         is_weekend |-> IF day_of_week >= 5 THEN 1 ELSE 0,
         is_night |-> IF hour >= 22 \/ hour < 6 THEN 1 ELSE 0,
         is_business_hours |-> IF 9 <= hour /\ hour < 18 THEN 1 ELSE 0,
         day_of_month |-> day_of_month,
         is_month_start |-> IF day_of_month <= 3 THEN 1 ELSE 0,
         is_month_end |-> IF day_of_month >= last_day - 2 THEN 1 ELSE 0]

\* math.log1p of a whole amount, in hundredths, rounded down
log1p(amount) ==
    CASE amount = 5 -> 179
      [] amount = 1500 -> 731
      [] amount = 7500 -> 892
      [] amount = 7503 -> 892

\* AmountFeatureExtractor.extract, for a whole amount
amount_features(amount) ==
    [amount |-> amount,
     amount_log |-> log1p(amount),
     amount_rounded |-> IF amount % 10 = 0 \/ amount % 100 = 0
                           \/ amount % 1000 = 0 THEN 1 ELSE 0,
     amount_decimal_places |-> 0,
     is_high_value |-> IF amount > 1000 THEN 1 ELSE 0,
     is_very_high_value |-> IF amount > 5000 THEN 1 ELSE 0,
     amount_percentile |->
        10 * Cardinality({i \in DOMAIN percentile_thresholds :
                             amount >= percentile_thresholds[i]})]

\* EmailFeatureExtractor.extract in a process with the given hash seed; the
\* ratio is rounded to four places
email_features(email, seed) ==
    [email_length |-> email.length,
     email_domain |-> str_hash(email.domain, seed) % 10000,
     is_disposable_email |-> IF email.domain \in DISPOSABLE_DOMAINS
                             THEN 1 ELSE 0,
     is_gmail |-> IF email.domain = "gmail.com" THEN 1 ELSE 0,
     is_yahoo |-> IF email.domain = "yahoo.com" THEN 1 ELSE 0,
     is_corporate_email |->
        IF /\ email.domain \notin FREE_PROVIDERS
           /\ email.domain \notin DISPOSABLE_DOMAINS
           /\ email.length - email.local_length - 1 > 5
        THEN 1 ELSE 0,
     email_has_numbers |-> IF email.digits > 0 THEN 1 ELSE 0,
     email_numeric_ratio |-> (email.digits * 10000) \div email.local_length]

\* f'velocity_{key}'
velocity_key(key) ==
    CASE key = "customer_tx_count_1h" -> "velocity_customer_tx_count_1h"
      [] key = "customer_tx_count_24h" -> "velocity_customer_tx_count_24h"
      [] key = "customer_tx_count_7d" -> "velocity_customer_tx_count_7d"
      [] key = "customer_amount_1h" -> "velocity_customer_amount_1h"
      [] key = "customer_amount_24h" -> "velocity_customer_amount_24h"
      [] key = "customer_amount_7d" -> "velocity_customer_amount_7d"
      [] key = "ip_tx_count_1h" -> "velocity_ip_tx_count_1h"
      [] key = "ip_tx_count_24h" -> "velocity_ip_tx_count_24h"
      [] key = "device_tx_count_1h" -> "velocity_device_tx_count_1h"
      [] key = "device_tx_count_24h" -> "velocity_device_tx_count_24h"

\* FeatureEngineer.extract_all_features, lines 72-76: the entries a velocity
\* snapshot adds; None and the empty dict add none
velocity_entries(velocity_features) ==
    [name \in {velocity_key(key) : key \in DOMAIN velocity_features} |->
        velocity_features[CHOOSE key \in DOMAIN velocity_features :
                             velocity_key(key) = name]]

\* FeatureEngineer.extract_all_features: one dict of the three extractors'
\* features, the velocity features under the prefix velocity_, and the
\* currency, payment-method and merchant indicators (here of a PEN payment
\* by credit card to a merchant without category); a later entry replaces
\* an earlier one of its name
extract_all_features(tx, velocity_features, seed) ==
    [currency_PEN |-> 1, currency_USD |-> 0,
     payment_credit_card |-> 1, payment_debit_card |-> 0,
     payment_digital_wallet |-> 0,
     merchant_retail |-> 0, merchant_ecommerce |-> 0, merchant_services |-> 0]
    @@ velocity_entries(velocity_features)
    @@ email_features(tx.email, seed)
    @@ amount_features(tx.amount)
    @@ time_features(tx.timestamp)

\* FeatureEngineer.get_all_feature_names
get_all_feature_names ==
    <<"hour_of_day", "day_of_week", "is_weekend", "is_night",
      "is_business_hours", "day_of_month", "is_month_start", "is_month_end",
      "amount", "amount_log", "amount_rounded", "amount_decimal_places",
      "is_high_value", "is_very_high_value", "amount_percentile",
      "email_length", "email_domain", "is_disposable_email", "is_gmail",
      "is_yahoo", "is_corporate_email", "email_has_numbers",
      "email_numeric_ratio",
      "velocity_customer_tx_count_1h", "velocity_customer_tx_count_24h",
      "velocity_customer_tx_count_7d", "velocity_customer_amount_1h",
      "velocity_customer_amount_24h", "velocity_customer_amount_7d",
      "velocity_ip_tx_count_1h", "velocity_ip_tx_count_24h",
      "velocity_device_tx_count_1h", "velocity_device_tx_count_24h",
      "currency_PEN", "currency_USD", "payment_credit_card",
      "payment_debit_card", "payment_digital_wallet", "merchant_retail",
      "merchant_ecommerce", "merchant_services">>

\* Probabilities are kept in ten-thousandths (round(p, 4)), scores in points
ProbabilityScale == 10000

\* the rule-based prediction with the two value rules in the other order
_fallback_prediction_high_value_first(features) ==
    LET score ==
          (IF dict_get(features, "is_high_value", 0) = 1 THEN 15
           ELSE IF dict_get(features, "is_very_high_value", 0) = 1 THEN 30
           ELSE 0)
          + (IF dict_get(features, "is_night", 0) = 1 THEN 10 ELSE 0)
          + (IF dict_get(features, "is_weekend", 0) = 1 THEN 5 ELSE 0)
          + (IF dict_get(features, "is_disposable_email", 0) = 1 THEN 25 ELSE 0)
          + (IF dict_get(features, "amount_rounded", 0) = 1 THEN 10 ELSE 0)
          + (LET velocity_tx_24h ==
                    dict_get(features, "velocity_customer_tx_count_24h", 0)
             IN  IF velocity_tx_24h > 10 THEN 20
                 ELSE IF velocity_tx_24h > 5 THEN 10 ELSE 0)
        capped == IF score < 100 THEN score ELSE 100
        fraud_probability == (capped * ProbabilityScale) \div 100
    IN  [fraud_probability |-> fraud_probability,
         fraud_score |-> capped,
         prediction |-> IF fraud_probability * 10 >= 7 * ProbabilityScale
                        THEN 1 ELSE 0,
         model_used |-> FALSE,
         confidence |-> "LOW"]
\* ModelManager._fallback_prediction: the rule points, capped at 100, and the
\* probability, the points divided by 100
_fallback_prediction(features) ==
    LET score ==
          (IF dict_get(features, "is_very_high_value", 0) = 1 THEN 30
           ELSE IF dict_get(features, "is_high_value", 0) = 1 THEN 15
           ELSE 0)
          + (IF dict_get(features, "is_night", 0) = 1 THEN 10 ELSE 0)
          + (IF dict_get(features, "is_weekend", 0) = 1 THEN 5 ELSE 0)
          + (IF dict_get(features, "is_disposable_email", 0) = 1 THEN 25 ELSE 0)
          + (IF dict_get(features, "amount_rounded", 0) = 1 THEN 10 ELSE 0)
          + (LET velocity_tx_24h ==
                    dict_get(features, "velocity_customer_tx_count_24h", 0)
             IN  IF velocity_tx_24h > 10 THEN 20
                 ELSE IF velocity_tx_24h > 5 THEN 10 ELSE 0)
        capped == IF score < 100 THEN score ELSE 100
        fraud_probability == (capped * ProbabilityScale) \div 100
    IN  [fraud_probability |-> fraud_probability,
         fraud_score |-> capped,
         prediction |-> IF fraud_probability * 10 >= 7 * ProbabilityScale
                        THEN 1 ELSE 0,
         model_used |-> FALSE,
         confidence |-> "LOW"]

\* MLService._calculate_rule_based_score, in hundredths: the feature map has
\* an amount but neither transactions_last_hour nor amount_last_day
_calculate_rule_based_score(features) ==
    IF features.amount > 10000 THEN 30
    ELSE IF features.amount > 5000 THEN 20
    ELSE IF features.amount > 1000 THEN 10
    ELSE 0

\* The harness of the feature pipeline: one transaction and one velocity
\* snapshot given to every worker process; per worker its hash seed, the
\* feature map it extracted and the score it computed
ScoringOff(tx, velocity_features, seeds) ==
    [pc |-> "scoring", tx |-> tx, velocity_features |-> velocity_features,
     seed |-> seeds,
     extracted |-> [w \in Instances |-> FALSE],
     features |-> [w \in Instances |->
                     extract_all_features(tx, NoVelocity, NULL)],
     scored |-> [w \in Instances |-> FALSE],
     fraud_score |-> [w \in Instances |-> 0],
     risk_level |-> [w \in Instances |-> "none"]]

InitScoring ==
    /\ InitState
    /\ \E amount \in Amounts, email \in EmailInputs, timestamp \in Timestamps,
          velocity_features \in VelocitySnapshots,
          seeds \in [Instances -> HashSeeds] :
          probe = ScoringOff([amount |-> amount, email |-> email,
                              timestamp |-> timestamp],
                             velocity_features, seeds)

\* Worker w runs FeatureEngineer.extract_all_features on the transaction
ExtractAllFeatures(w) ==
    /\ probe.pc = "scoring"
    /\ ~probe.extracted[w]
    /\ probe' = [probe EXCEPT
                    !.extracted[w] = TRUE,
                    !.features[w] = extract_all_features(
                                       probe.tx, probe.velocity_features,
                                       probe.seed[w])]
    /\ UNCHANGED <<now, api_keys, transactions, prisma_client, redis_client,
                   rl_zset, rl_ttl, kv_cache, req, arrived, faults, mon>>

\* Worker w runs FraudService._calculate_fraud_score and _calculate_risk_level
\* on the transaction, with the MLService of get_ml_service
CalculateFraudScore(w) ==
    /\ probe.pc = "scoring"
    /\ ~probe.scored[w]
    /\ LET all_features == extract_all_features(probe.tx,
                                                probe.velocity_features,
                                                probe.seed[w])
           fraud_score == _calculate_fraud_score(
                             _calculate_rule_based_score(all_features))
       IN  probe' = [probe EXCEPT
                       !.scored[w] = TRUE,
                       !.fraud_score[w] = fraud_score,
                       !.risk_level[w] = _calculate_risk_level(fraud_score)]
    /\ UNCHANGED <<now, api_keys, transactions, prisma_client, redis_client,
                   rl_zset, rl_ttl, kv_cache, req, arrived, faults, mon>>

NextScoring ==
    \/ \E w \in Instances : ExtractAllFeatures(w)
    \/ \E w \in Instances : CalculateFraudScore(w)

SpecScoring == InitScoring /\ [][NextScoring]_vars

\* ----------------------------------------------------- the model manager
\* Velocity snapshots as dicts: none (None or the empty dict), the five
\* entries FraudService._calculate_velocity_features builds, and all ten
VelocityDicts ==
    {<<>>}
    \cup {[customer_tx_count_1h |-> n, customer_tx_count_24h |-> n,
           customer_amount_24h |-> 0, ip_tx_count_1h |-> 0,
           ip_tx_count_24h |-> 0] : n \in {6, 12}}
    \cup {[customer_tx_count_1h |-> 12, customer_tx_count_24h |-> 12,
           customer_tx_count_7d |-> 12, customer_amount_1h |-> 0,
           customer_amount_24h |-> 0, customer_amount_7d |-> 0,
           ip_tx_count_1h |-> 0, ip_tx_count_24h |-> 0,
           device_tx_count_1h |-> 0, device_tx_count_24h |-> 0]}
\* ModelManager.load_model: the file is loaded, is missing (or holds no
\* classifier), or loading raises
LoadOutcomes == {"loaded", "missing", "raises"}
\* What predict_proba of a loaded classifier may answer, in ten-thousandths
ModelProbabilities == {300, 6500, 9700}

\* ModelManager._calculate_confidence
_calculate_confidence(probability) ==
    LET distance == IF probability >= ProbabilityScale \div 2
                    THEN probability - ProbabilityScale \div 2
                    ELSE ProbabilityScale \div 2 - probability
    IN  IF distance * 10 >= 4 * ProbabilityScale THEN "HIGH"
        ELSE IF distance * 10 >= 2 * ProbabilityScale THEN "MEDIUM"
        ELSE "LOW"

\* ModelManager.load_model: model_loaded after the call
load_model(model_loaded, outcome) ==
    CASE outcome = "loaded" -> TRUE
      [] outcome = "missing" -> model_loaded
      [] outcome = "raises" -> FALSE

\* ModelManager.predict: the result and model_loaded after the call, when
\* load_model (called only if the model is not loaded) has the given outcome
\* and the classifier either raises or answers the given probability
predict(model_loaded, features, load_outcome, raises, probability) ==
    LET loaded == IF model_loaded THEN TRUE
                  ELSE load_model(model_loaded, load_outcome)
    IN  IF ~loaded
        THEN [model_loaded |-> FALSE, result |-> _fallback_prediction(features)]
        ELSE IF raises
        THEN [model_loaded |-> TRUE, result |-> _fallback_prediction(features)]
        ELSE [model_loaded |-> TRUE,
              result |-> [fraud_probability |-> probability,
                          fraud_score |-> (probability * 100)
                                          \div ProbabilityScale,
                          prediction |-> IF probability * 2 >= ProbabilityScale
                                         THEN 1 ELSE 0,
                          model_used |-> TRUE,
                          confidence |-> _calculate_confidence(probability)]]

\* The harness of the model manager: a ModelManager as constructed, one
\* transaction and its velocity snapshot, the feature map once it is
\* extracted, and of the last predict call the result, what load_model did
\* in it ("skipped" if the model was loaded) and whether the classifier
\* raised
PredictOff(tx, velocity_features) ==
    [pc |-> "predict", model_loaded |-> FALSE,
     tx |-> tx, velocity_features |-> velocity_features,
     extracted |-> FALSE, features |-> <<>>,
     called |-> FALSE, load |-> "skipped", raised |-> FALSE,
     result |-> [fraud_probability |-> NULL, fraud_score |-> NULL,
                 prediction |-> NULL, model_used |-> FALSE,
                 confidence |-> "none"]]

InitPredict ==
    /\ InitState
    /\ \E amount \in Amounts, email \in EmailInputs, timestamp \in Timestamps,
          velocity_features \in VelocityDicts :
          probe = PredictOff([amount |-> amount, email |-> email,
                              timestamp |-> timestamp], velocity_features)

\* ModelManager.load_model called on its own
LoadModel(outcome) ==
    /\ probe.pc = "predict"
    /\ probe' = [probe EXCEPT
                    !.model_loaded = load_model(probe.model_loaded, outcome)]
    /\ UNCHANGED <<now, api_keys, transactions, prisma_client, redis_client,
                   rl_zset, rl_ttl, kv_cache, req, arrived, faults, mon>>

\* FeatureEngineer.extract_all_features on the transaction and its snapshot
ExtractFeatures ==
    /\ probe.pc = "predict"
    /\ ~probe.extracted
    /\ probe' = [probe EXCEPT
                    !.extracted = TRUE,
                    !.features = extract_all_features(
                                    probe.tx, probe.velocity_features, 0)]
    /\ UNCHANGED <<now, api_keys, transactions, prisma_client, redis_client,
                   rl_zset, rl_ttl, kv_cache, req, arrived, faults, mon>>

\* ModelManager.predict on the extracted feature map
Predict(load_outcome, raises, probability) ==
    /\ probe.pc = "predict"
    /\ probe.extracted
    /\ LET out == predict(probe.model_loaded, probe.features, load_outcome,
                          raises, probability)
       IN  probe' = [probe EXCEPT
                       !.model_loaded = out.model_loaded,
                       !.called = TRUE,
                       !.load = IF probe.model_loaded THEN "skipped"
                                ELSE load_outcome,
                       !.raised = out.model_loaded /\ raises,
                       !.result = out.result]
    /\ UNCHANGED <<now, api_keys, transactions, prisma_client, redis_client,
                   rl_zset, rl_ttl, kv_cache, req, arrived, faults, mon>>

NextPredict ==
    \/ ExtractFeatures
    \/ \E outcome \in LoadOutcomes : LoadModel(outcome)
    \/ \E load_outcome \in LoadOutcomes, raises \in BOOLEAN,
          probability \in ModelProbabilities :
          Predict(load_outcome, raises, probability)

SpecPredict == InitPredict /\ [][NextPredict]_vars

\* ------------------------------------------------- the time extractor
\* Years of the timestamps: a century year that is no leap year, one that
\* is, a common year, a leap year, and the last year a datetime can hold
Years == {1900, 2000, 2023, 2024, MAXYEAR}
\* Every datetime of these years at 03:00 and at 12:00 (a datetime holds
\* only days that its month has)
Datetimes ==
    {timestamp \in [year : Years, month : 1..12, day : 1..31, hour : {3, 12}] :
        timestamp.day <= _days_in_month(timestamp.year, timestamp.month)}

\* The harness of the time extractor: one parsed timestamp and, once
\* extracted, its time features
TimeOff(timestamp) ==
    [pc |-> "time", timestamp |-> timestamp, extracted |-> FALSE,
     features |-> time_features_default]

InitTime ==
    /\ InitState
    /\ \E timestamp \in Datetimes : probe = TimeOff(timestamp)

\* TimeFeatureExtractor.extract on the timestamp
TimeExtract ==
    /\ probe.pc = "time"
    /\ ~probe.extracted
    /\ probe' = [probe EXCEPT !.extracted = TRUE,
                              !.features = time_features(probe.timestamp)]
    /\ UNCHANGED <<now, api_keys, transactions, prisma_client, redis_client,
                   rl_zset, rl_ttl, kv_cache, req, arrived, faults, mon>>

NextTime == TimeExtract

SpecTime == InitTime /\ [][NextTime]_vars

\* ------------------------------------------------ the database manager
\* Calls of connect in one behaviour
MaxConnects == 3
\* DatabaseManager.__init__
_max_retries == 3
_retry_delay == 2

\* the seconds to wait after a failed attempt, without the backoff
delay_constant(attempt) == _retry_delay
\* DatabaseManager.connect, line 67: the seconds to wait after a failed
\* attempt
delay(attempt) == _retry_delay * (2 ^ (attempt - 1))

\* The harness of the database manager: a DatabaseManager as constructed,
\* the position of its connect coroutine ("idle" outside a call) with the
\* loop variable, and the history of the last connect call: whether it found
\* the manager connected, the outcome of each Prisma.connect it awaited, the
\* delays it slept and how it ended; disconnect clears the history
DbOff ==
    [pc |-> "db", _connected |-> FALSE, at |-> "idle", attempt |-> 0,
     calls |-> 0, was_connected |-> FALSE, results |-> <<>>,
     sleeps |-> <<>>, outcome |-> "none"]

InitConnect ==
    /\ InitState
    /\ probe = DbOff

\* DatabaseManager.connect is called: it returns at once if the manager is
\* connected and enters its loop otherwise
Connect ==
    /\ probe.pc = "db"
    /\ probe.at = "idle"
    /\ probe.calls < MaxConnects
    /\ probe' = [probe EXCEPT
                    !.calls = @ + 1,
                    !.was_connected = probe._connected,
                    !.results = <<>>,
                    !.sleeps = <<>>,
                    !.at = IF probe._connected THEN "idle" ELSE "attempt",
                    !.attempt = IF probe._connected THEN 0 ELSE 1,
                    !.outcome = IF probe._connected THEN "returned"
                                ELSE "none"]
    /\ UNCHANGED <<now, api_keys, transactions, prisma_client, redis_client,
                   rl_zset, rl_ttl, kv_cache, req, arrived, faults, mon>>

\* connect, lines 47-72: one pass of the loop up to its next await or its
\* end; Prisma.connect succeeds or raises
ConnectAttempt(ok) ==
    /\ probe.pc = "db"
    /\ probe.at = "attempt"
    /\ probe' = [probe EXCEPT
                    !.results = Append(@, ok),
                    !._connected = ok,
                    !.at = IF ~ok /\ probe.attempt < _max_retries
                           THEN "sleep" ELSE "idle",
                    !.attempt = IF ~ok /\ probe.attempt < _max_retries
                                THEN @ ELSE 0,
                    !.outcome = IF ok THEN "returned"
                                ELSE IF probe.attempt < _max_retries
                                THEN "none" ELSE "raised"]
    /\ UNCHANGED <<now, api_keys, transactions, prisma_client, redis_client,
                   rl_zset, rl_ttl, kv_cache, req, arrived, faults, mon>>

\* connect, line 69: asyncio.sleep(delay) is over and the loop goes on
ConnectSleep ==
    /\ probe.pc = "db"
    /\ probe.at = "sleep"
    /\ now' = now + delay(probe.attempt)
    /\ probe' = [probe EXCEPT
                    !.sleeps = Append(@, delay(probe.attempt)),
                    !.attempt = @ + 1,
                    !.at = "attempt"]
    /\ UNCHANGED <<api_keys, transactions, prisma_client, redis_client,
                   rl_zset, rl_ttl, kv_cache, req, arrived, faults, mon>>

\* DatabaseManager.disconnect: Prisma.disconnect succeeds or raises (and the
\* manager stays connected)
Disconnect(ok) ==
    /\ probe.pc = "db"
    /\ probe.at = "idle"
    /\ probe._connected
    /\ probe' = [probe EXCEPT
                    !._connected = ~ok,
                    !.was_connected = FALSE,
                    !.results = <<>>,
                    !.sleeps = <<>>,
                    !.outcome = "none"]
    /\ UNCHANGED <<now, api_keys, transactions, prisma_client, redis_client,
                   rl_zset, rl_ttl, kv_cache, req, arrived, faults, mon>>

NextConnect ==
    \/ Connect
    \/ \E ok \in BOOLEAN : ConnectAttempt(ok)
    \/ ConnectSleep
    \/ \E ok \in BOOLEAN : Disconnect(ok)

SpecConnect == InitConnect /\ [][NextConnect]_vars

\* An awaited Prisma.connect returns or raises and an asyncio.sleep ends
SpecConnectFair ==
    /\ SpecConnect
    /\ WF_vars(\E ok \in BOOLEAN : ConnectAttempt(ok))
    /\ WF_vars(ConnectSleep)

\* ------------------------------------------------------ the cache service
\* One CacheService object that lives across calls: its in-process L1
\* dictionary (insertion ordered) and the Redis keys beneath it.
CacheKeys == {"a", "b", "c"}
\* a JSON object, and a value json.dumps rejects (a set)
CacheValues == {<<"dict", 1>>, <<"set", 1>>}
NoValue == <<"none", 0>>
L1Sizes == {1, 2}
CacheTtls == {CACHE_DEFAULT_TTL}
NoRedisKey == [text |-> NoText, expires |-> NULL]
NoCall == [op |-> "none", key |-> "none", value |-> NoValue,
           returned |-> FALSE, l2_consulted |-> FALSE]

l1_keys(l1_cache) == {l1_cache[n].key : n \in 1..Len(l1_cache)}

\* self.l1_cache[key]
l1_value(l1_cache, key) ==
    LET n == CHOOSE n \in 1..Len(l1_cache) : l1_cache[n].key = key
    IN  l1_cache[n].value

l1_assign_absent(l1_cache, key, value) ==
    IF key \in l1_keys(l1_cache) THEN l1_cache
    ELSE Append(l1_cache, [key |-> key, value |-> value])

\* self.l1_cache[key] = value: a present key keeps its place
l1_assign(l1_cache, key, value) ==
    IF key \in l1_keys(l1_cache)
    THEN [n \in 1..Len(l1_cache) |->
             IF l1_cache[n].key = key THEN [key |-> key, value |-> value]
             ELSE l1_cache[n]]
    ELSE Append(l1_cache, [key |-> key, value |-> value])

\* del self.l1_cache[key]
l1_del(l1_cache, key) ==
    SelectSeq(l1_cache, LAMBDA entry : entry.key # key)

_set_l1_above(l1_cache, l1_max_size, key, value) ==
    l1_assign(IF Len(l1_cache) > l1_max_size THEN Tail(l1_cache)
              ELSE l1_cache, key, value)

\* CacheService._set_l1: at the size limit the first key of the dictionary
\* is deleted, then the key is assigned
_set_l1(l1_cache, l1_max_size, key, value) ==
    l1_assign(IF Len(l1_cache) >= l1_max_size THEN Tail(l1_cache)
              ELSE l1_cache, key, value)

\* _serialize: json.dumps raises TypeError on a set
json_dumps_raises(value) == value[1] = "set"
json_dumps(value) == <<"object", value[2]>>
\* _deserialize: json.loads
json_loads(text) == <<"dict", text[2]>>

\* redis.get(key) at time t
redis_get_key(redis, key, t) ==
    IF redis[key].text # NoText /\ t < redis[key].expires
    THEN redis[key].text ELSE NoText

CacheOff == [pc |-> "cache", l1_max_size |-> 1, l1_cache |-> <<>>,
             redis |-> [k \in CacheKeys |-> NoRedisKey], call |-> NoCall,
             l1_due |-> [k \in CacheKeys |-> NULL]]

\* History: the second at which the TTL of the value L1 holds for a key
\* runs out (call_due for the key of the call, nothing for a key not in L1)
l1_due_after(l1_due, l1_cache, key, call_due) ==
    [k \in CacheKeys |-> IF k \notin l1_keys(l1_cache) THEN NULL
                         ELSE IF k = key THEN call_due ELSE l1_due[k]]

\* CacheService.get
CacheGet(key) ==
    /\ probe.pc = "cache"
    /\ IF key \in l1_keys(probe.l1_cache)
       THEN /\ probe' = [probe EXCEPT !.call =
                   [NoCall EXCEPT !.op = "get", !.key = key,
                                  !.value = l1_value(probe.l1_cache, key)]]
            /\ UNCHANGED faults
       ELSE \E outcome \in Outcomes({"get_fail"}) :
               LET text == redis_get_key(probe.redis, key, now)
                   hit == outcome = "ok" /\ text # NoText
                   value == IF hit THEN json_loads(text) ELSE NoValue
                   l1 == IF hit
                         THEN _set_l1(probe.l1_cache, probe.l1_max_size, key,
                                      value)
                         ELSE probe.l1_cache
               IN  /\ Count(outcome)
                   /\ probe' = [probe EXCEPT
                         !.l1_cache = l1,
                         !.l1_due = l1_due_after(@, l1, key,
                                                 probe.redis[key].expires),
                         !.call = [NoCall EXCEPT !.op = "get", !.key = key,
                                      !.value = value,
                                      !.l2_consulted = TRUE]]
    /\ UNCHANGED <<now, api_keys, transactions, prisma_client, redis_client,
                   rl_zset, rl_ttl, kv_cache, req, arrived, mon>>

\* CacheService.set: L1 first, then _serialize and setex; an exception of
\* either is swallowed and False returned
CacheSet(key, value, ttl) ==
    /\ probe.pc = "cache"
    /\ \E outcome \in Outcomes({"setex_fail"}) :
          LET stored == outcome = "ok" /\ ~json_dumps_raises(value)
              l1 == _set_l1(probe.l1_cache, probe.l1_max_size, key, value)
          IN  /\ json_dumps_raises(value) => outcome = "ok"
              /\ Count(outcome)
              /\ probe' = [probe EXCEPT
                    !.l1_cache = l1,
                    !.l1_due = l1_due_after(@, l1, key, now + ttl),
                    !.redis[key] = IF stored
                                   THEN [text |-> json_dumps(value),
                                         expires |-> now + ttl]
                                   ELSE @,
                    !.call = [NoCall EXCEPT !.op = "set", !.key = key,
                                 !.value = value,
                                 !.returned = stored,
                                 !.l2_consulted = ~json_dumps_raises(value)]]
    /\ UNCHANGED <<now, api_keys, transactions, prisma_client, redis_client,
                   rl_zset, rl_ttl, kv_cache, req, arrived, mon>>

\* CacheService.delete
CacheDelete(key) ==
    /\ probe.pc = "cache"
    /\ \E outcome \in Outcomes({"delete_fail"}) :
          /\ Count(outcome)
          /\ probe' = [probe EXCEPT
                !.l1_cache = l1_del(@, key),
                !.l1_due[key] = NULL,
                !.redis[key] = IF outcome = "ok" THEN NoRedisKey ELSE @,
                !.call = [NoCall EXCEPT !.op = "delete", !.key = key,
                             !.l2_consulted = TRUE,
                             !.returned = outcome = "ok"
                                 /\ \/ key \in l1_keys(probe.l1_cache)
                                    \/ redis_get_key(probe.redis, key, now)
                                       # NoText]]
    /\ UNCHANGED <<now, api_keys, transactions, prisma_client, redis_client,
                   rl_zset, rl_ttl, kv_cache, req, arrived, mon>>

\* CacheService.clear
CacheClear ==
    /\ probe.pc = "cache"
    /\ \E outcome \in Outcomes({"flushdb_fail"}) :
          /\ Count(outcome)
          /\ probe' = [probe EXCEPT
                !.l1_cache = <<>>,
                !.l1_due = [k \in CacheKeys |-> NULL],
                !.redis = IF outcome = "ok"
                          THEN [k \in CacheKeys |-> NoRedisKey] ELSE @,
                !.call = [NoCall EXCEPT !.op = "clear",
                             !.l2_consulted = TRUE,
                             !.returned = outcome = "ok"]]
    /\ UNCHANGED <<now, api_keys, transactions, prisma_client, redis_client,
                   rl_zset, rl_ttl, kv_cache, req, arrived, mon>>

InitCache ==
    /\ now = 0
    /\ api_keys = InitKeys("plain")
    /\ transactions = {}
    /\ prisma_client = [i \in Instances |-> "none"]
    /\ redis_client = [i \in Instances |-> "none"]
    /\ rl_zset = [k \in KeyIds |-> {}]
    /\ rl_ttl = [k \in KeyIds |-> NULL]
    /\ kv_cache = [e \in Emails |-> NoEntry]
    /\ req = [r \in Reqs |-> IdleReq]
    /\ arrived = 0
    /\ mon = [k \in KeyIds |-> NoMon]
    /\ faults = 0
    /\ \E size \in L1Sizes : probe = [CacheOff EXCEPT !.l1_max_size = size]

\* Callers use the one object for as long as the process lives
NextCache ==
    \/ Tick /\ now' >= now + CACHE_DEFAULT_TTL
    \/ \E key \in CacheKeys : CacheGet(key)
    \/ \E key \in CacheKeys, value \in CacheValues, ttl \in CacheTtls :
          CacheSet(key, value, ttl)
    \/ \E key \in CacheKeys : CacheDelete(key)
    \/ CacheClear

SpecCache == InitCache /\ [][NextCache]_vars

\* ------------------------------------------------- the decision functions
\* _calculate_risk_level and _generate_recommendation applied, as
\* score_transaction applies them, to every score in [0, 1]
InitDecision ==
    /\ InitState
    /\ \E s \in Scores : probe = [ProbeOff EXCEPT !.pc = "score",
                                                  !.fraud_score = s]

DecideRiskLevel ==
    /\ probe.pc = "score"
    /\ probe' = [probe EXCEPT !.pc = "risk",
                              !.risk_level =
                                 _calculate_risk_level(probe.fraud_score)]
    /\ UNCHANGED <<now, api_keys, transactions, prisma_client, redis_client,
                   rl_zset, rl_ttl, kv_cache, req, arrived, faults, mon>>

DecideRecommendation ==
    /\ probe.pc = "risk"
    /\ probe' = [probe EXCEPT !.pc = "decided",
                              !.recommendation =
                                 _generate_recommendation(probe.fraud_score,
                                                          probe.risk_level)]
    /\ UNCHANGED <<now, api_keys, transactions, prisma_client, redis_client,
                   rl_zset, rl_ttl, kv_cache, req, arrived, faults, mon>>

NextDecision ==
    \/ DecideRiskLevel
    \/ DecideRecommendation

SpecDecision == InitDecision /\ [][NextDecision]_vars

\* ------------------------------------------------------------ properties

\* C1: every request answered 200 has, when the response is produced, a
\* transactions row with its transaction_id whose (fraud_score, risk_level,
\* decision) equals the response's (fraud_score, risk_level, recommendation).
C1_PersistedBefore200 ==
    \A r \in Reqs :
       (Done(r) /\ req[r].status = 200) =>
          \E row \in transactions :
             /\ row.transaction_id = req[r].txid
             /\ row.fraud_score = req[r].resp.fraud_score
             /\ row.risk_level = req[r].resp.risk_level
             /\ row.decision = req[r].resp.recommendation

C1_Witness ==
    \E r \in Reqs : Done(r) /\ req[r].status = 200 /\ req[r].wrote_row

C3_Rejected401 ==
    \A r \in Reqs :
       (Done(r) /\ (req[r].hdr = "none" \/ req[r].lookup = "invalid")) =>
          /\ req[r].status = 401
          /\ req[r].resp.detail
          /\ ~req[r].wrote_row
          /\ ~req[r].rl_touched
          /\ ~req[r].incremented

\* C3 amended: such a request is answered 401 with a detail body, or 500 with
\* a detail body when the database client cannot be connected for the key
\* lookup; it writes no transactions row, changes no rate-limit state and
\* increments no request_count.
C3_RejectedAtTheGate ==
    \A r \in Reqs :
       (Done(r) /\ (req[r].hdr = "none" \/ req[r].lookup = "invalid")) =>
          /\ \/ req[r].status = 401
             \/ req[r].status = 500 /\ req[r].auth_error /\ req[r].hdr # "none"
          /\ req[r].resp.detail
          /\ ~req[r].scoring
          /\ ~req[r].wrote_row
          /\ ~req[r].rl_checked
          /\ ~req[r].rl_touched
          /\ ~req[r].incremented

C3_Witness ==
    \E r \in Reqs :
       /\ Done(r)
       /\ req[r].hdr = "kA"
       /\ req[r].lookup = "invalid"
       /\ req[r].status = 401

\* C4: a request is authenticated (handed to the rate limiter with the key
\* record attached) iff at lookup time a record with the presented key's
\* salted hash exists with is_active and (expires_at null or > now); a
\* request bearing such a key is never answered 401.
C4_AuthenticatedIffValid ==
    \A r \in Reqs :
       req[r].lookup # "none" =>
          /\ (req[r].api_key # NoApiKey) <=> (req[r].lookup = "valid")
          /\ req[r].lookup = "valid" => req[r].status # 401

\* C5: with no Redis errors and the requests of a key handled one after
\* another within one 60 s window, a request passes the rate limiter iff
\* fewer than rate_limit requests of the key were admitted before it, and a
\* denied one is answered 429 with Retry-After and X-RateLimit-Remaining: 0.
C5_ExactlyFirstLPass ==
    \A r \in Reqs :
       (req[r].rl_checked /\ req[r].sequential) =>
          /\ req[r].rl_allowed <=>
                (req[r].prior_admitted
                    < EffectiveRateLimit(req[r].api_key.rate_limit))
          /\ (Done(r) /\ ~req[r].rl_allowed) =>
                /\ req[r].status = 429
                /\ req[r].resp.retry_after
                /\ req[r].resp.remaining = 0

\* C6: when requests of one key are checked concurrently (no Redis errors),
\* never more than rate_limit of them are admitted within one 60 s window.
C6_AtMostLimitAdmitted ==
    \A k \in KeyIds :
       ~mon[k].kv_failed =>
          mon[k].admitted <= EffectiveRateLimit(api_keys[k].rate_limit)

\* C7: if a Redis operation of the rate-limit check fails, or the Redis
\* client cannot be obtained, the request is allowed and handed to the
\* scoring endpoint (which scores it unless its body is invalid); it is never
\* answered 429, and 500 only when a database call of the scoring fails.
C7_FailOpen ==
    \A r \in Reqs :
       req[r].kv_error =>
          /\ req[r].rl_allowed
          /\ req[r].pc \in {"vel_get", "vel_db", "vel_set", "save", "done"}
          /\ Done(r) =>
                /\ req[r].at_endpoint
                /\ req[r].scoring \/ req[r].body # "valid"
                /\ req[r].status \in {200, HTTP_422_UNPROCESSABLE_ENTITY, 500}
                /\ req[r].status = 500 =>
                      (req[r].vel_db_failed \/ req[r].insert_failed)

C7_Witness ==
    \E r \in Reqs : Done(r) /\ req[r].kv_error /\ req[r].status = 200

C9_RemainingStrictlyDecreases ==
    \A r \in Reqs :
       (/\ Done(r)
        /\ req[r].rl_allowed
        /\ req[r].sequential
        /\ req[r].resp.remaining # NULL
        /\ req[r].prev_remaining # NULL) =>
          req[r].resp.remaining < req[r].prev_remaining

\* C10 as stated: a failed insert gives 500 with a detail body, never 200,
\* and no row of the request; the insert is the only dependency whose
\* failure turns an authenticated request into a 500.
C10_OnlyInsertFails ==
    \A r \in Reqs :
       /\ req[r].insert_failed =>
             /\ Done(r)
             /\ req[r].status = 500
             /\ req[r].resp.detail
             /\ ~req[r].wrote_row
       /\ (Done(r) /\ req[r].status = 500 /\ req[r].api_key # NoApiKey) =>
             req[r].insert_failed

\* C10 amended: a failed insert gives 500 with a detail body, never 200, and
\* no row of the request; a failed insert and a failed velocity query of the
\* transaction store are the only dependency failures that turn an
\* authenticated request into a 500.
C10_InsertOrVelocityQueryFails ==
    \A r \in Reqs :
       /\ req[r].insert_failed =>
             /\ Done(r)
             /\ req[r].status = 500
             /\ req[r].resp.detail
             /\ ~req[r].wrote_row
       /\ (Done(r) /\ req[r].status = 500 /\ req[r].api_key # NoApiKey) =>
             (req[r].insert_failed \/ req[r].vel_db_failed)

C10_Witness ==
    \E r \in Reqs :
       /\ Done(r)
       /\ req[r].insert_failed
       /\ req[r].status = 500
       /\ faults = 1

C15_HeadersOnEveryResponse ==
    \A r \in Reqs :
       Done(r) =>
          /\ req[r].resp.security_headers
          /\ req[r].api_key # NoApiKey =>
                (req[r].resp.limit # NULL /\ req[r].resp.remaining # NULL)

\* C16: a request with a valid key and available quota whose body violates a
\* field constraint (a private source IP) is answered 400 with a detail
\* body, and no transactions row is written.
C16_ConstraintViolation400 ==
    \A r \in Reqs :
       (Done(r) /\ req[r].rl_allowed /\ req[r].body = "private_ip") =>
          /\ req[r].status = 400
          /\ req[r].resp.detail
          /\ ~req[r].wrote_row

C19_UsageUpdateNeverFailsRequest ==
    [][\A r \in Reqs :
          (req[r].pc = "auth_incr" /\ req'[r].pc # "auth_incr") =>
             req'[r] = [req[r] EXCEPT !.pc = "rl",
                                      !.incremented = req'[r].incremented]]_vars

C19_Witness ==
    \E r \in Reqs :
       /\ Done(r)
       /\ req[r].api_key # NoApiKey
       /\ ~req[r].incremented
       /\ req[r].rl_checked
       /\ req[r].status = 200

\* C18 (as stated): after the deactivation of a key has completed the key
\* record still exists, unchanged but for is_active = false, and every request
\* with that key whose authentication lookup starts more than 5 s later is
\* answered 401.
C18_Deactivated401 ==
    /\ [](probe.deactivated_at # NULL =>
             /\ ~api_keys["idA"].is_active
             /\ api_keys["idA"].key_hash = hash_api_key("kA"))
    /\ [][\A r \in Reqs :
             (/\ req[r].pc = "auth" /\ req'[r].pc # "auth"
              /\ req[r].hdr = "kA"
              /\ probe.deactivated_at # NULL
              /\ now > probe.deactivated_at + 5)
             => (req'[r].pc = "done" /\ req'[r].status = 401)]_vars

\* C18 (amended): ... is rejected by the auth middleware: answered 401, or
\* 500 when the database client cannot be connected for the key lookup.
C18_DeactivatedRejected ==
    /\ [](probe.deactivated_at # NULL =>
             /\ ~api_keys["idA"].is_active
             /\ api_keys["idA"].key_hash = hash_api_key("kA"))
    /\ [][\A r \in Reqs :
             (/\ req[r].pc = "auth" /\ req'[r].pc # "auth"
              /\ req[r].hdr = "kA"
              /\ probe.deactivated_at # NULL
              /\ now > probe.deactivated_at + 5)
             => /\ req'[r].pc = "done"
                /\ req'[r].status = 401
                   \/ (req'[r].status = 500 /\ req'[r].auth_error)]_vars

\* a request with the customer's key, unexpired, answered 401 at a lookup more
\* than 5 s after the key was deactivated
C18_Witness ==
    /\ probe.pc = "deactivated"
    /\ probe.status = 204
    /\ probe.deactivated_at # NULL
    /\ now > probe.deactivated_at + 5
    /\ api_keys["idA"].expires_at = NULL
    /\ \E r \in Reqs : Done(r) /\ req[r].hdr = "kA" /\ req[r].status = 401

\* C20: GET /health without an API key is always answered 200 with status
\* "healthy"; GET /health/ready is answered 503 if and only if its database
\* probe or its Redis probe raised, and 200 otherwise.
C20_HealthAndReadiness ==
    /\ probe.path = <<"health">> =>
          probe.status = 200 /\ probe.body_status = "healthy"
    /\ probe.path = <<"health", "ready">> =>
          /\ probe.status \in {200, 503}
          /\ probe.status = 503 <=> (probe.db_raised \/ probe.redis_raised)

\* a readiness probe answered 503 although its database probe went through
C20_Witness ==
    /\ probe.path = <<"health", "ready">>
    /\ probe.status = 503
    /\ ~probe.db_raised
    /\ probe.redis_raised

\* C11: the trained model is never available to the scoring service, so the
\* fraud_score of every score computation is the rule-based fallback score of
\* the transaction's features (rule points / 100), and a score of 0.55 or more
\* gets risk level HIGH or CRITICAL.
C11_FallbackScore ==
    \A w \in Instances :
       probe.pc = "scoring" /\ probe.scored[w] =>
          LET fallback == _fallback_prediction(
                             extract_all_features(probe.tx,
                                                  probe.velocity_features,
                                                  probe.seed[w])).fraud_score
          IN  /\ probe.fraud_score[w] = fallback
              /\ fallback >= 55 =>
                    probe.risk_level[w] \in {RISK_LEVEL_HIGH, RISK_LEVEL_CRITICAL}

\* C13: two computations on the same transaction and the same velocity
\* snapshot give the same feature map and the same fraud_score, whichever
\* worker process runs them.
C13_SameInputSameFeatures ==
    \A v, w \in Instances :
       probe.pc = "scoring" =>
          /\ (probe.extracted[v] /\ probe.extracted[w]) =>
                probe.features[v] = probe.features[w]
          /\ (probe.scored[v] /\ probe.scored[w]) =>
                probe.fraud_score[v] = probe.fraud_score[w]

\* C26: after any sequence of get, set, delete and clear calls on a cache
\* service with l1_max_size >= 1, L1 holds at most l1_max_size entries
C26_L1Bounded ==
    probe.pc = "cache" => Len(probe.l1_cache) <= probe.l1_max_size

\* L1 is full, and the last call put one more key into it
C26_Witness ==
    /\ probe.pc = "cache"
    /\ probe.l1_max_size = 2
    /\ Len(probe.l1_cache) = probe.l1_max_size
    /\ probe.call.op \in {"get", "set"}
    /\ probe.call.key = probe.l1_cache[2].key
    /\ probe.call.key # "a" /\ probe.l1_cache[1].key # "a"
    /\ probe.redis["a"].text # NoText

\* C27: a set or an L2 back-fill that inserts a key not yet in L1 while L1
\* holds l1_max_size entries evicts exactly the entry inserted earliest; in
\* every other case (L1 below capacity, or the key already in L1) no entry
\* is evicted
C27_EvictionRule ==
    [][(probe.pc = "cache" /\ probe'.call.op \in {"get", "set"}) =>
         LET before == probe.l1_cache
             after == probe'.l1_cache
             key == probe'.call.key
             inserted == key \notin l1_keys(before) /\ key \in l1_keys(after)
         IN  IF inserted /\ Len(before) = probe.l1_max_size
             THEN l1_keys(before) \ l1_keys(after) = {before[1].key}
             ELSE l1_keys(before) \subseteq l1_keys(after)]_vars

\* C25: an entry whose TTL has elapsed is never returned by get: once ttl
\* seconds have passed since the last set of the key, get reports a miss
\* until the key is set again
C25_ExpiredNeverReturned ==
    [][(probe.pc = "cache" /\ probe'.call.op = "get" /\ now' = now
        /\ probe'.call.value # NoValue)
       => now < probe'.l1_due[probe'.call.key]]_vars

\* C29: when set returns False (serialization or KV-store failure) the
\* cache is unchanged in both layers, so a following get of the key returns
\* what it would have returned before the set
C29_FailedSetChangesNothing ==
    [][(probe.pc = "cache" /\ probe'.call.op = "set"
        /\ ~probe'.call.returned)
       => /\ probe'.l1_cache = probe.l1_cache
          /\ probe'.redis = probe.redis]_vars

\* What a get of `key` answers from L2 when the KV store answers: the
\* stored value, which is then also in L1
C24_L2Hit(key) ==
    /\ probe'.call.value = json_loads(probe.redis[key].text)
    /\ probe'.call.l2_consulted
    /\ key \in l1_keys(probe'.l1_cache)
    /\ l1_value(probe'.l1_cache, key) = probe'.call.value

C24_L1Hit(key) ==
    /\ probe'.call.value = l1_value(probe.l1_cache, key)
    /\ ~probe'.call.l2_consulted

C24_InL2(key) ==
    probe.redis[key].text # NoText /\ now < probe.redis[key].expires

C24_Wrote(key, value) ==
    /\ key \in l1_keys(probe'.l1_cache)
    /\ l1_value(probe'.l1_cache, key) = value
    /\ probe'.redis[key].text = json_dumps(value)
    /\ now < probe'.redis[key].expires

\* C24 (as stated): get returns the L1 value when the key is in L1, without
\* consulting L2; otherwise, when the key is in L2, the L2 value, which it
\* copies into L1; otherwise a miss.  set writes the value to L1 and L2.
C24_GetSetLayersAlways ==
    [][(probe.pc = "cache" /\ now' = now) =>
         LET key == probe'.call.key
         IN  /\ probe'.call.op = "get" =>
                  IF key \in l1_keys(probe.l1_cache) THEN C24_L1Hit(key)
                  ELSE IF C24_InL2(key) THEN C24_L2Hit(key)
                  ELSE probe'.call.value = NoValue
             /\ probe'.call.op = "set" =>
                  C24_Wrote(key, probe'.call.value)]_vars

\* C24 (amended): the same, where the L2 branch of get is taken when the
\* KV-store read succeeds (a failed read is a miss), and set has written
\* the value to L1 and L2 when it returns True
C24_GetSetLayers ==
    [][(probe.pc = "cache" /\ now' = now) =>
         LET key == probe'.call.key
         IN  /\ probe'.call.op = "get" =>
                  IF key \in l1_keys(probe.l1_cache) THEN C24_L1Hit(key)
                  ELSE IF C24_InL2(key) /\ faults' = faults
                  THEN C24_L2Hit(key)
                  ELSE probe'.call.value = NoValue
             /\ (probe'.call.op = "set" /\ probe'.call.returned) =>
                  C24_Wrote(key, probe'.call.value)]_vars

\* A get found its key in L2 only and copied it into a full L1, while
\* another key is served from L1 with a value L2 does not hold
C24_Witness ==
    /\ probe.pc = "cache"
    /\ probe.call.op = "get" /\ probe.call.l2_consulted
    /\ probe.call.value # NoValue
    /\ Len(probe.l1_cache) = 2
    /\ probe.l1_cache[2].key = probe.call.key
    /\ probe.l1_cache[1].value = <<"set", 1>>

\* C21: within one score request the steps come in the order velocity
\* snapshot, score and decision, insert, response.  No insert of a request
\* precedes its own velocity read, its snapshot never counts its own row,
\* and the row it inserts carries the decision its response reports.
C21_StepOrder ==
    [][\A r \in Reqs :
         LET own == {row \in transactions :
                        row.customer_email = req[r].email}
         IN  /\ (req[r].pc \in {"vel_get", "vel_db"}
                 /\ req'[r].velocity # req[r].velocity)
                => /\ ~req[r].wrote_row /\ ~req'[r].wrote_row
                   /\ req'[r].pc \in {"vel_set", "save"}
             /\ (~req[r].wrote_row /\ req'[r].wrote_row)
                => /\ req[r].pc = "save" /\ req'[r].pc = "done"
                   /\ req[r].velocity # NoVelocity
                   /\ req'[r].velocity = req[r].velocity
                   /\ req[r].velocity.customer_tx_count_1h
                         <= Cardinality(own)
                   /\ \E row \in transactions' \ transactions :
                         /\ row.transaction_id = req[r].txid
                         /\ row.decision = req'[r].resp.recommendation
             /\ (req[r].pc # "done" /\ req'[r].pc = "done"
                 /\ req'[r].status = 200)
                => req[r].pc = "save" /\ req'[r].wrote_row]_vars

\* Two requests of one customer were handled concurrently: both are
\* answered 200, both rows are stored, and each got its snapshot from the
\* transaction store without the row of the other
C21_Witness ==
    /\ \A r \in {1, 2} :
          /\ req[r].pc = "done" /\ req[r].status = 200 /\ req[r].wrote_row
          /\ req[r].cache_got = NoVelocity
          /\ req[r].velocity.customer_tx_count_1h = 0
    /\ req[1].email = req[2].email
    /\ Cardinality({row \in transactions :
                      row.customer_email = req[1].email}) = 2

\* C22: the scoring path never updates or deletes a transactions row; a
\* request answered 200 inserts exactly one row, a request that ends with
\* any other status inserts none, and the velocity steps only read
C22_RowsOnlyInserted ==
    [][/\ transactions \subseteq transactions'
       /\ \A r \in Reqs :
             (req[r].pc \notin {"idle", "done"} /\ req'[r].pc = "done")
             => IF req'[r].status = 200
                THEN \E row \in transactions' :
                        /\ row \notin transactions
                        /\ row.transaction_id = req[r].txid
                        /\ transactions' = transactions \cup {row}
                ELSE transactions' = transactions
       /\ (\A r \in Reqs : req'[r].pc # "done" \/ req[r].pc = "done")
          => transactions' = transactions]_vars

\* A request ended with 500 at the insert and left the one row of an
\* earlier request as it was
C22_Witness ==
    \E r \in Reqs :
       /\ req[r].pc = "done" /\ req[r].status = 500 /\ req[r].insert_failed
       /\ req[r].cache_got = NoVelocity
       /\ Cardinality(transactions) = 1

\* C23: no two stored transactions share a transaction_id, also when two
\* requests with one transaction_id are handled concurrently: at most one of
\* them is answered 200 and the other writes nothing
C23_TransactionIdUnique ==
    /\ \A a, b \in transactions :
          a.transaction_id = b.transaction_id => a = b
    /\ \A r, o \in Reqs :
          (r # o /\ req[r].txid # "none" /\ req[r].txid = req[o].txid)
          => /\ ~(req[r].wrote_row /\ req[o].wrote_row)
             /\ ~(req[r].status = 200 /\ req[o].status = 200)
             /\ req[r].wrote_row <=> req[r].status = 200

\* Two concurrent requests carried one transaction_id and both read the
\* store before either insert; one was answered 200, the insert of the
\* other was refused and it was answered 500
C23_Witness ==
    \E r, o \in Reqs :
       /\ r # o /\ req[r].txid # "none" /\ req[r].txid = req[o].txid
       /\ req[r].pc = "done" /\ req[o].pc = "done"
       /\ req[r].status = 200 /\ req[r].wrote_row
       /\ req[o].status = 500 /\ req[o].insert_failed /\ ~req[o].wrote_row
       /\ req[r].cache_got = NoVelocity /\ req[o].cache_got = NoVelocity
       /\ req[r].velocity.customer_tx_count_1h = 0
       /\ req[o].velocity.customer_tx_count_1h = 0
       /\ Cardinality(transactions) = 1

\* C28: a KV-store error during a cache read or write is not surfaced to
\* the caller of the score endpoint: the failed get is a miss and the
\* snapshot is computed from the transaction store, the failed set stores
\* nothing, and the request fails only where the store fails
C28_CacheErrorsNotSurfaced ==
    [][\A r \in Reqs :
         /\ (~req[r].get_failed /\ req'[r].get_failed)
            => /\ req'[r].cache_got = NoVelocity
               /\ req'[r].pc = "vel_db"
         /\ (~req[r].set_failed /\ req'[r].set_failed)
            => /\ req'[r].pc = "save"
               /\ req'[r].velocity = req[r].velocity
               /\ kv_cache' = kv_cache
         /\ (req'[r].pc = "done" /\ req'[r].scoring
             /\ (req'[r].get_failed \/ req'[r].set_failed))
            => /\ req'[r].status \in {200, 500}
               /\ req'[r].status = 500
                  => req'[r].vel_db_failed \/ req'[r].insert_failed
               /\ req'[r].velocity.customer_tx_count_1h
                     = req'[r].persisted_at_arrival[req'[r].email]
                  \/ req'[r].vel_db_failed]_vars

\* The Redis read of a request raised, its snapshot came from the store
\* and counts the row of an earlier request, and it was answered 200
C28_Witness ==
    \E r \in Reqs :
       /\ req[r].pc = "done" /\ req[r].get_failed /\ req[r].status = 200
       /\ req[r].wrote_row
       /\ req[r].velocity.customer_tx_count_1h = 1


\* The 60 s bucket a second lies in
C30_Bucket(t) == t \div VELOCITY_BUCKET_SECONDS

\* Request r is served the snapshot the cache holds for its customer
C30_Served(r) == req[r].pc = "vel_get" /\ req'[r].pc = "save"

\* C30 (as stated): a snapshot served from the cache to a request made in
\* bucket b was computed from store reads performed in the same bucket b
C30_ServedReadInSameBucket ==
    [][\A r \in Reqs :
         C30_Served(r) =>
            LET entry == kv_cache[req'[r].email]
            IN  /\ req'[r].velocity = entry.set_value
                /\ entry.read_bucket = C30_Bucket(now)]_vars

\* C30 (amended): a snapshot served from the cache to a request made in
\* bucket b was written to the cache in the same bucket b, less than 60 s
\* before; the store reads it was computed from came before the write
C30_ServedSetInSameBucket ==
    [][\A r \in Reqs :
         C30_Served(r) =>
            LET entry == kv_cache[req'[r].email]
            IN  /\ req'[r].velocity = entry.set_value
                /\ C30_Bucket(entry.set_at) = C30_Bucket(now)
                /\ now - entry.set_at < VELOCITY_BUCKET_SECONDS
                /\ 0 <= entry.read_bucket
                /\ entry.read_bucket <= C30_Bucket(entry.set_at)
                /\ entry.set_at <= now]_vars

\* A request has just been served a snapshot in the bucket it was set in,
\* computed from reads of the bucket before
C30_Witness ==
    \E r \in Reqs :
       LET entry == kv_cache[req[r].email]
       IN  /\ req[r].pc = "save" /\ req[r].cache_got # NoVelocity
           /\ req[r].cache_got = entry.set_value
           /\ C30_Bucket(entry.set_at) = C30_Bucket(now)
           /\ entry.read_bucket < C30_Bucket(now)

\* C31: requests of one customer that miss the velocity cache concurrently
\* each compute their snapshot from the transaction store and write it; none
\* fails or waits because of the others, and the cache holds the snapshot
\* written last, which is the snapshot of the request that wrote it
C31_LastWriteWins ==
    [][\A r \in Reqs :
         LET e == req[r].email
         IN  /\ req[r].pc = "vel_db" => ENABLED VelocityFromDb(r)
             /\ req[r].pc = "vel_set" => ENABLED VelocityCacheSet(r)
             /\ (req[r].pc = "vel_db" /\ req'[r].pc # "vel_db")
                => /\ req'[r].pc = "vel_set"
                   /\ req'[r].velocity.customer_tx_count_1h
                         = Cardinality({row \in transactions :
                                          row.customer_email = e})
             /\ (req[r].pc = "vel_set" /\ req'[r].pc # "vel_set")
                => /\ req'[r].pc = "save"
                   /\ kv_cache'[e].bucket = now \div VELOCITY_BUCKET_SECONDS
                   /\ kv_cache'[e].value = _serialize(req[r].velocity)
                   /\ now < kv_cache'[e].expires
                   /\ redis_get(kv_cache'[e], _generate_cache_key(e, now),
                                now) = _serialize(req[r].velocity)]_vars

\* Two requests of one customer missed the cache in one bucket; the first
\* computed a count of 0 and wrote it, the second computed 1 and wrote
\* last, and the cache holds the snapshot of the second
C31_Witness ==
    \E r, o \in Reqs :
       /\ r # o /\ req[r].email = req[o].email /\ req[r].email # "none"
       /\ req[r].cache_got = NoVelocity /\ req[o].cache_got = NoVelocity
       /\ req[r].l1_cache # NoL1 /\ req[o].l1_cache # NoL1
       /\ req[r].l1_cache.key = req[o].l1_cache.key
       /\ req[r].velocity.customer_tx_count_1h = 0
       /\ req[o].velocity.customer_tx_count_1h = 1
       /\ kv_cache[req[r].email].value = _serialize(req[o].velocity)
       /\ req[r].status = 200 /\ req[o].status = 200

\* C32: a request denied by the rate limiter (429) never reaches the scoring
\* orchestrator: no velocity query, no cache write, no transactions row; and
\* the rate limiter is consulted only for requests that passed
\* authentication (the auth middleware is outside the rate limiter and has
\* attached the key)
C32_DeniedNeverScores ==
    \A r \in Reqs :
       /\ (req[r].pc = "done" /\ req[r].status = 429)
          => /\ req[r].rl_checked /\ ~req[r].rl_allowed
             /\ ~req[r].at_endpoint /\ ~req[r].scoring
             /\ req[r].velocity = NoVelocity
             /\ req[r].cache_got = NoVelocity /\ ~req[r].get_failed
             /\ req[r].read_bucket = NULL /\ ~req[r].vel_db_failed
             /\ req[r].l1_cache = NoL1 /\ ~req[r].set_failed
             /\ ~req[r].wrote_row /\ ~req[r].insert_failed
       /\ req[r].rl_checked
          => /\ req[r].api_key # NoApiKey
             /\ req[r].hdr # "none"
             /\ ~req[r].auth_error
             /\ PassesThrough("RateLimitMiddleware", "AuthMiddleware")

\* A request with a valid key was denied with 429 while the row and the
\* cached snapshot of an earlier request stay as they were
C32_Witness ==
    \E r \in Reqs :
       /\ req[r].pc = "done" /\ req[r].status = 429
       /\ req[r].persisted_at_arrival[CHOOSE e \in Emails : TRUE] = 1
       /\ Cardinality(transactions) = 1
       /\ \E e \in Emails : kv_cache[e].value # NoText

\* C33: a request denied by the rate limiter adds no entry to the window of
\* its key: the denied check leaves exactly the entries that are not older
\* than the window, and does not move the key's expiry, so repeated denied
\* requests never postpone the moment the key is admitted again
C33_DeniedAddsNoEntry ==
    [][\A r \in Reqs :
         (req[r].pc = "rl" /\ req'[r].pc = "done" /\ req'[r].status = 429)
         => LET k == req[r].api_key.id
            IN  /\ rl_zset'[k] = {t \in rl_zset[k] :
                                    t > now - DEFAULT_WINDOW}
                /\ now \notin rl_zset'[k] \/ now \in rl_zset[k]
                /\ rl_ttl'[k] = rl_ttl[k]
                /\ \A o \in KeyIds \ {k} : rl_zset'[o] = rl_zset[o]]_vars

\* A request was denied one second after the request that used up the
\* quota; the window holds that one entry only
C33_Witness ==
    \E r \in Reqs :
       /\ req[r].pc = "done" /\ req[r].status = 429
       /\ now = 1
       /\ mon[req[r].api_key.id].first_time = 0
       /\ rl_zset[req[r].api_key.id] = {0}

\* The requests recorded for key k that still count at time t: those
\* recorded less than 60 s before
C34_Counting(k, t) == {m \in rl_zset[k] : t < m + DEFAULT_WINDOW}

\* C34: the window slides: a request recorded at time t stops counting
\* against its key from t + 60 s on, so a check whose Redis calls succeed
\* admits the request exactly when fewer than the limit of the recorded
\* requests are younger than 60 s (a denied key is admitted again by the
\* first check after enough of them have aged out)
C34_WindowSlides ==
    [][\A r \in Reqs :
         LET k == req[r].api_key.id
             limit == EffectiveRateLimit(req[r].api_key.rate_limit)
         IN  /\ (req[r].pc = "rl" /\ req'[r].pc = "rl_add")
                => Cardinality(C34_Counting(k, now)) < limit
             /\ (req[r].pc = "rl" /\ req'[r].pc = "done")
                => /\ req'[r].status = 429
                   /\ Cardinality(C34_Counting(k, now)) >= limit
             /\ (req[r].pc = "rl"
                 /\ Cardinality(C34_Counting(k, now)) < limit)
                => req'[r].pc # "done"]_vars

\* A key whose quota was used up at time 0 is admitted again by the check
\* made 60 s later, which records the new request in place of the old
C34_Witness ==
    \E r \in Reqs :
       LET k == req[r].api_key.id
       IN  /\ req[r].rl_allowed /\ ~req[r].kv_error
           /\ req[r].pc = "vel_get"
           /\ now = DEFAULT_WINDOW
           /\ mon[k].first_time = 0
           /\ mon[k].admitted
                 = EffectiveRateLimit(req[r].api_key.rate_limit)
           /\ rl_zset[k] = {DEFAULT_WINDOW}

\* C35: whenever the model is not loaded and cannot be loaded, or the
\* prediction raises, ModelManager.predict returns model_used = false,
\* confidence LOW and fraud_probability = min(points, 100) / 100, where
\* points = (30 if very-high-value, else 15 if high-value) + (10 if night)
\* + (5 if weekend) + (25 if disposable email) + (10 if rounded amount)
\* + (20 if the 24 h customer tx count > 10, else 10 if > 5); the probability
\* is always within [0, 1].
C35_Is(name) == name \in DOMAIN probe.features /\ probe.features[name] = 1
C35_Count24h ==
    IF "velocity_customer_tx_count_24h" \in DOMAIN probe.features
    THEN probe.features["velocity_customer_tx_count_24h"] ELSE 0
C35_Points ==
    (IF C35_Is("is_very_high_value") THEN 30
     ELSE IF C35_Is("is_high_value") THEN 15 ELSE 0)
    + (IF C35_Is("is_night") THEN 10 ELSE 0)
    + (IF C35_Is("is_weekend") THEN 5 ELSE 0)
    + (IF C35_Is("is_disposable_email") THEN 25 ELSE 0)
    + (IF C35_Is("amount_rounded") THEN 10 ELSE 0)
    + (IF C35_Count24h > 10 THEN 20 ELSE IF C35_Count24h > 5 THEN 10 ELSE 0)
C35_FallbackPrediction ==
    probe.pc = "predict" /\ probe.called =>
       /\ 0 <= probe.result.fraud_probability
       /\ probe.result.fraud_probability <= ProbabilityScale
       /\ (probe.load \in {"missing", "raises"} \/ probe.raised) =>
             /\ probe.result.model_used = FALSE
             /\ probe.result.confidence = "LOW"
             /\ probe.result.fraud_probability * 100 =
                   (IF C35_Points < 100 THEN C35_Points ELSE 100)
                   * ProbabilityScale

\* the classifier of a loaded model raised on a very-high-value round amount
\* paid at night on a weekend with a disposable email by a customer with
\* twelve transactions in 24 h: 100 points, probability 1
C35_Witness ==
    /\ probe.pc = "predict" /\ probe.called
    /\ probe.raised /\ probe.model_loaded
    /\ C35_Points = 100
    /\ probe.result.fraud_probability = ProbabilityScale
    /\ probe.result.model_used = FALSE

\* C36: the feature map produced by FeatureEngineer.extract_all_features
\* has a fixed schema: for every transaction and every velocity snapshot
\* (absent, partial or complete) its key set equals the list returned by
\* get_all_feature_names, which has no duplicates, and every velocity
\* sub-feature missing from the snapshot is present with value 0.
C36_Names == {get_all_feature_names[i] : i \in DOMAIN get_all_feature_names}
C36_SubFeatures ==
    {"customer_tx_count_1h", "customer_tx_count_24h", "customer_tx_count_7d",
     "customer_amount_1h", "customer_amount_24h", "customer_amount_7d",
     "ip_tx_count_1h", "ip_tx_count_24h",
     "device_tx_count_1h", "device_tx_count_24h"}
C36_FixedSchema ==
    probe.pc = "predict" /\ probe.extracted =>
       /\ Cardinality(C36_Names) = Len(get_all_feature_names)
       /\ DOMAIN probe.features = C36_Names
       /\ \A key \in C36_SubFeatures \ DOMAIN probe.velocity_features :
             /\ velocity_key(key) \in DOMAIN probe.features
             /\ probe.features[velocity_key(key)] = 0

\* C37: for every valid timestamp, the time feature is_month_end is 1
\* exactly when the day is one of the last three days of its month, with the
\* month length computed correctly for 28-, 29-, 30- and 31-day months
\* (including February in leap and non-leap years and December), and 0
\* otherwise.
C37_MonthLength(year, month) ==
    CASE month \in {4, 6, 9, 11} -> 30
      [] month = 2 ->
           IF year % 400 = 0 \/ (year % 4 = 0 /\ year % 100 # 0)
           THEN 29 ELSE 28
      [] OTHER -> 31
C37_MonthEnd ==
    probe.pc = "time" /\ probe.extracted =>
       (probe.features.is_month_end = 1
          <=> probe.timestamp.day >=
                 C37_MonthLength(probe.timestamp.year,
                                 probe.timestamp.month) - 2)
       /\ probe.features.is_month_end \in {0, 1}

\* C38: DatabaseManager.connect terminates after at most 3 connection
\* attempts: it stops at the first successful attempt with is_connected =
\* true and makes no further attempt, waits 2 s and then 4 s between failed
\* attempts, and after the third failure raises with is_connected = false;
\* calling connect while already connected makes no attempt at all.
C38_Waits == <<2, 4>>
C38_Bounded ==
    probe.pc = "db" =>
       LET n == Len(probe.results)
       IN  /\ n <= 3
           /\ \A i \in 1..(n - 1) : ~probe.results[i]
           /\ Len(probe.sleeps) <= 2
           /\ probe.sleeps = SubSeq(C38_Waits, 1, Len(probe.sleeps))
           /\ probe.at = "attempt" =>
                 /\ Len(probe.sleeps) = n /\ n < 3
                 /\ ~probe._connected
           /\ probe.at = "sleep" =>
                 /\ Len(probe.sleeps) = n - 1 /\ n \in {1, 2}
                 /\ ~probe.results[n] /\ ~probe._connected
           /\ probe.outcome = "returned" =>
                 /\ probe.at = "idle" /\ probe._connected
                 /\ probe.was_connected => n = 0
                 /\ ~probe.was_connected =>
                       /\ n >= 1 /\ probe.results[n]
                       /\ Len(probe.sleeps) = n - 1
           /\ probe.outcome = "raised" =>
                 /\ probe.at = "idle" /\ ~probe._connected
                 /\ probe.results = <<FALSE, FALSE, FALSE>>
                 /\ probe.sleeps = C38_Waits
           /\ (probe.at = "idle" /\ probe.outcome = "none") => n = 0

C38_ConnectTerminates ==
    /\ []C38_Bounded
    /\ (probe.at # "idle") ~> (probe.at = "idle")

\* a connect call whose three attempts failed, after a call that connected
\* at its second attempt and a disconnect
C38_Witness ==
    /\ probe.pc = "db"
    /\ probe.outcome = "raised"
    /\ probe.calls = 2
    /\ now = 2 + 2 + 4
    /\ ~probe._connected

====
